---- MODULE Spec2Model ----
(***************************************************************************)
(* ZANS task manager bot: the task store keyed by assignee, its            *)
(* persistence (atomic write, backups, optional git replication, save      *)
(* guard), the start-up reconciliation and the recurring reminder scan.    *)
(*                                                                         *)
(* JavaScript objects are modelled with a heap: the assignee collections   *)
(* hold references, so one task object pushed into several collections is  *)
(* shared until the store is reloaded from its JSON record, which yields   *)
(* one fresh object per stored entry.                                      *)
(* Positions are 1-based here (found.index + 1 of the source).             *)
(* Strings that the code parses are sequences of one-character strings.    *)
(***************************************************************************)
EXTENDS Integers, Sequences, FiniteSets, TLC

\* ------------------------------------------------------------------ bounds
MaxRefs == 2
MaxLog == 2
MaxStride == 2
MaxWaiting == 1
MaxScans == 1
MaxJobs == 2
MaxOverlap == 2

\* ------------------------------------------------------------ environment
Users == {"u1", "u2"}
OwnerId == "u1"
ADMIN_IDS == {}
DeptNames == {"ops"}
NoDept == ""
MsPerMin == 60000
Stride == 25 * MsPerMin
ClockReadings == {1 + k * Stride + e : k \in 0..MaxStride, e \in 0..1}
DueA == 1 + 2 * Stride
Refs == 1..MaxRefs

Min(S) == CHOOSE x \in S : \A y \in S : x <= y
Range(s) == {s[i] : i \in 1..Len(s)}
Has(s, x) == \E i \in 1..Len(s) : s[i] = x
\* splice(i) without a count: everything from position i on is removed.
RemoveFrom(s, i) == SubSeq(s, 1, i - 1)
RemoveAt(s, i) == [j \in 1..(Len(s) - 1) |-> IF j < i THEN s[j] ELSE s[j + 1]]

RECURSIVE Filter(_, _)
Filter(s, keep) ==
  IF s = <<>> THEN <<>>
  ELSE (IF Head(s) \in keep THEN <<Head(s)>> ELSE <<>>) \o Filter(Tail(s), keep)

\* The array as it is, repeats kept.
KeepRepeats(s) == s
RECURSIVE Dedup(_)
Dedup(s) ==
  IF s = <<>> THEN <<>>
  ELSE LET r == Dedup(SubSeq(s, 1, Len(s) - 1))
           x == s[Len(s)]
       IN IF Has(r, x) THEN r ELSE Append(r, x)

\* ------------------------------------------------------------------ strings
S24h == <<"2", "4", "h">>
S1h == <<"1", "h">>
S30m == <<"3", "0", "m">>
S45 == <<"4", "5">>
SOverdue == <<"o", "v", "e", "r", "d", "u", "e">>
Digits == <<"0", "1", "2", "3", "4", "5", "6", "7", "8", "9">>
IsDigit(c) == Has(Digits, c)
DigitVal(c) == (CHOOSE i \in 1..10 : Digits[i] = c) - 1
Lower(c) ==
  CASE c = "H" -> "h" [] c = "M" -> "m" [] c = "D" -> "d"
    [] c = "F" -> "f" [] c = "O" -> "o" [] c = "X" -> "x"
    [] OTHER -> c
ToLowerCase(s) == [i \in 1..Len(s) |-> Lower(s[i])]

RECURSIVE TrimLeft(_)
TrimLeft(s) == IF s # <<>> /\ Head(s) = " " THEN TrimLeft(Tail(s)) ELSE s
RECURSIVE TrimRight(_)
TrimRight(s) ==
  IF s # <<>> /\ s[Len(s)] = " " THEN TrimRight(SubSeq(s, 1, Len(s) - 1)) ELSE s
Trim(s) == TrimRight(TrimLeft(s))
EndsWith(s, c) == s # <<>> /\ s[Len(s)] = c

\* parseFloat on an unsigned integer prefix; [nan |-> TRUE] when there is none.
RECURSIVE DigitPrefix(_, _)
DigitPrefix(s, acc) ==
  IF s # <<>> /\ IsDigit(Head(s)) THEN DigitPrefix(Tail(s), 10 * acc + DigitVal(Head(s)))
  ELSE acc
parseFloat(s) ==
  IF s # <<>> /\ IsDigit(Head(s)) THEN [nan |-> FALSE, v |-> DigitPrefix(s, 0)]
  ELSE [nan |-> TRUE, v |-> 0]
Times(f, k) == IF f.nan THEN f ELSE [nan |-> FALSE, v |-> f.v * k]

\* A parse that scales a trailing d like a trailing h.
parseWindowDayAsHour(raw) ==
  IF raw = <<>> THEN [nan |-> FALSE, v |-> 0]
  ELSE LET s == ToLowerCase(Trim(raw))
       IN IF EndsWith(s, "m") THEN parseFloat(s) ELSE Times(parseFloat(s), 60)
\* null (empty input) is not NaN for isNaN and compares as 0.
parseWindowToMinutes(raw) ==
  IF raw = <<>> THEN [nan |-> FALSE, v |-> 0]
  ELSE LET s == ToLowerCase(Trim(raw))
       IN IF EndsWith(s, "h") THEN Times(parseFloat(s), 60)
          ELSE IF EndsWith(s, "m") THEN parseFloat(s)
          ELSE IF EndsWith(s, "d") THEN Times(parseFloat(s), 60 * 24)
          ELSE Times(parseFloat(s), 60)

\* config.reminders mapped to {key, mins} and filtered on !isNaN(mins).
RECURSIVE WindowsOf(_)
WindowsOf(rem) ==
  IF rem = <<>> THEN <<>>
  ELSE LET m == parseWindowToMinutes(Head(rem))
       IN (IF m.nan THEN <<>> ELSE <<[key |-> Head(rem), mins |-> m.v]>>)
          \o WindowsOf(Tail(rem))

\* parseDue: an absent or unparsable date string gives null (0), a date its time.
parseDue(d) == IF d.kind = "date" THEN d.ms ELSE 0
DueInputs == {[kind |-> "absent", ms |-> 0], [kind |-> "bad", ms |-> 0],
              [kind |-> "date", ms |-> DueA]}

\* ------------------------------------------------------------- task records
Valid == <<"Pending", "In Progress", "Done", "Blocked", "Overdue">>
StatusInputs == Range(Valid) \cup {"Archived"}

NewTaskOf(id, title, description, due, by, assigned, dept, firstLog) ==
  [id |-> id, title |-> title, description |-> description, due |-> due,
   status |-> "Pending", createdBy |-> by, assignedTo |-> assigned,
   department |-> dept, logs |-> <<firstLog>>, remindersSent |-> <<>>]
\* The commands of the model give every task the title "t" and no description.
NewTask(id, due, by, assigned, dept, firstLog) ==
  NewTaskOf(id, <<"t">>, <<>>, due, by, assigned, dept, firstLog)

\* -------------------------------------------------------------------- state
VARIABLES
  keys,         \* insertion order of the keys of the Map `tasks`
  tasks,        \* assignee id -> sequence of references to task objects
  heap,         \* reference -> task object
  departments,  \* department name -> sequence of member ids
  managers,     \* ids registered as managers
  config,       \* [reminders, backupRetention]
  disk,         \* the four persisted records
  tmp,          \* the temporary file of each record
  backups,      \* per record, the time stamps naming its backup files
  isSaving,     \* the save guard
  holders,      \* the operations inside safeSave's try block: kind, position
  waiting,      \* per record, handlers polling for the guard
  gitMode,      \* "off", "shell" (execSync) or "simple" (simple-git)
  gitJobs,      \* positions of the unawaited simple-git chains
  now,          \* the millisecond clock
  ready,        \* ClientReady has run in this process
  scans,        \* reminder ticks suspended on a delivery
  sent,         \* history: (task id, threshold key, assignee) delivered
  resent,       \* history: delivered again after it was already delivered
  last          \* outcome of the latest command

vars == <<keys, tasks, heap, departments, managers, config, disk, tmp, backups,
          isSaving, holders, waiting, gitMode, gitJobs, now, ready, scans, sent,
          resent, last>>
memVars == <<keys, tasks, heap>>
saveVars == <<isSaving, holders, waiting>>
diskVars == <<disk, tmp, backups, gitJobs>>
histVars == <<sent, resent>>

Kinds == {"tasks", "departments", "managers", "config"}

\* ------------------------------------------------------------ task store
RECURSIVE Flat(_, _)
Flat(ks, ts) ==
  IF ks = <<>> THEN <<>>
  ELSE [i \in 1..Len(ts[Head(ks)]) |-> [userId |-> Head(ks), index |-> i]]
       \o Flat(Tail(ks), ts)
RefAt(ts, e) == ts[e.userId][e.index]
IdAt(ts, h, e) == h[RefAt(ts, e)].id

RECURSIVE PickIdx(_, _, _)
PickIdx(s, keep, j) ==
  IF j > Len(s) THEN <<>>
  ELSE (IF j \in keep THEN <<s[j]>> ELSE <<>>) \o PickIdx(s, keep, j + 1)

\* Every entry of every collection, in scan order, ids repeated.
getAllTasksRepeated(ks, ts, h) == Flat(ks, ts)
\* One entry per id, the first in scan order (entries are [userId, index]).
getAllTasksUnique(ks, ts, h) ==
  LET f == Flat(ks, ts)
      first == {j \in 1..Len(f) :
                  \A i \in 1..(j - 1) : IdAt(ts, h, f[i]) # IdAt(ts, h, f[j])}
  IN PickIdx(f, first, 1)

NotFoundRec == [kind |-> "none", userId |-> "", index |-> 0, task |-> 0]
\* A lookup that returns the last entry with the id.
findLastById(ks, ts, h, id) ==
  LET f == Flat(ks, ts)
      hits == {j \in 1..Len(f) : IdAt(ts, h, f[j]) = id}
  IN IF hits = {} THEN NotFoundRec
     ELSE LET e == f[CHOOSE j \in hits : \A k \in hits : k <= j]
          IN [kind |-> "found", userId |-> e.userId, index |-> e.index,
              task |-> RefAt(ts, e)]
findTaskById(ks, ts, h, id) ==
  LET f == Flat(ks, ts)
      hits == {j \in 1..Len(f) : IdAt(ts, h, f[j]) = id}
  IN IF hits = {} THEN NotFoundRec
     ELSE LET e == f[Min(hits)]
          IN [kind |-> "found", userId |-> e.userId, index |-> e.index,
              task |-> RefAt(ts, e)]

ListOf(ts, u) == IF u \in DOMAIN ts THEN ts[u] ELSE <<>>
EntryCount(ks, ts) == Len(Flat(ks, ts))
NewRef(h) == Min(Refs \ DOMAIN h)

\* tasks.set(uid, []) when absent, then push.
PushEntry(ks, ts, u, r) ==
  IF u \in DOMAIN ts THEN [keys |-> ks, tasks |-> [ts EXCEPT ![u] = Append(@, r)]]
  ELSE [keys |-> Append(ks, u), tasks |-> ts @@ (u :> <<r>>)]

RECURSIVE PushAll(_, _, _, _)
PushAll(ks, ts, us, r) ==
  IF us = <<>> THEN [keys |-> ks, tasks |-> ts]
  ELSE LET m == PushEntry(ks, ts, Head(us), r)
       IN PushAll(m.keys, m.tasks, Tail(us), r)

\* Objects no collection and no suspended tick refers to are collected.
Live(ts, scs) ==
  UNION {Range(ts[u]) : u \in DOMAIN ts} \cup {scs[i].t : i \in 1..Len(scs)}
Collect(h, ts, scs) == [r \in (DOMAIN h \cap Live(ts, scs)) |-> h[r]]

\* ------------------------------------------------------------ roles
\* ------------------------------------------------------------ search
\* String.prototype.includes.
Includes(s, sub) ==
  \E i \in 0..(Len(s) - Len(sub)) : SubSeq(s, i + 1, i + Len(sub)) = sub

\* A score without the 100 points of the exact title.
ScoreWithoutExact(title, description, query) ==
  (IF Includes(ToLowerCase(title), query) THEN 50 ELSE 0)
  + (IF Includes(ToLowerCase(description), query) THEN 20 ELSE 0)
  + Cardinality({i \in 1..Len(query) : Includes(ToLowerCase(title), <<query[i]>>)})
\* The score of one task for the lower-cased query: [...query] has one element
\* per character of the query, each kept when the title includes it.
ScoreOf(title, description, query) ==
  LET t == ToLowerCase(title)
      d == ToLowerCase(description)
  IN (IF t = query THEN 100 ELSE 0)
     + (IF Includes(t, query) THEN 50 ELSE 0)
     + (IF Includes(d, query) THEN 20 ELSE 0)
     + Cardinality({i \in 1..Len(query) : Includes(t, <<query[i]>>)})

\* sort((a, b) => b.score - a.score): stable, highest score first.
RECURSIVE InsertByScore(_, _)
InsertByScore(sorted, x) ==
  IF sorted = <<>> THEN <<x>>
  ELSE IF Head(sorted).score >= x.score
  THEN <<Head(sorted)>> \o InsertByScore(Tail(sorted), x)
  ELSE <<x>> \o sorted
RECURSIVE SortByScore(_)
\* The scored list as mapped, not sorted.
KeepOrder(xs) == xs
SortByScore(xs) ==
  IF xs = <<>> THEN <<>>
  ELSE InsertByScore(SortByScore(SubSeq(xs, 1, Len(xs) - 1)), xs[Len(xs)])

RECURSIVE Positive(_)
Positive(xs) ==
  IF xs = <<>> THEN <<>>
  ELSE (IF Head(xs).score > 0 THEN <<Head(xs)>> ELSE <<>>) \o Positive(Tail(xs))

\* fuzzySearchTasks: the entries ([userId, index]) of the best matches.
fuzzySearchIn(ks, ts, h, query, limit) ==
  LET q == ToLowerCase(query)
      all == getAllTasksUnique(ks, ts, h)
      scored == [k \in 1..Len(all) |->
                   [t |-> all[k],
                    score |-> ScoreOf(h[RefAt(ts, all[k])].title,
                                      h[RefAt(ts, all[k])].description, q)]]
      best == SortByScore(Positive(scored))
  IN [k \in 1..Min({limit, Len(best)}) |-> best[k].t]
fuzzySearchTasks(query, limit) == fuzzySearchIn(keys, tasks, heap, query, limit)

\* The administrators taken to include the registered managers.
isAdminOrListed(userId) ==
  userId \in ADMIN_IDS \/ userId = OwnerId \/ userId \in managers
isAdmin(userId) == userId \in ADMIN_IDS \/ userId = OwnerId
isManager(mgrs, userId) == userId \in mgrs
isAdminOrManager(mgrs, userId) == isAdmin(userId) \/ isManager(mgrs, userId)

\* ------------------------------------------------------------ persistence
\* JSON.stringify(Object.fromEntries(tasks)): values, no object identity.
\* A serialization that leaves the department tag out.
SerializeUntagged(ks, ts, h) ==
  [keys |-> ks,
   lists |-> [u \in DOMAIN ts |->
                [i \in 1..Len(ts[u]) |-> [h[ts[u][i]] EXCEPT !.department = NoDept]]]]
SerializeTasks(ks, ts, h) ==
  [keys |-> ks, lists |-> [u \in DOMAIN ts |-> [i \in 1..Len(ts[u]) |-> h[ts[u][i]]]]]

\* new Map(Object.entries(JSON.parse(..))): one fresh object per stored entry.
RECURSIVE Base(_, _, _)
Base(ks, lists, k) ==
  IF k = 1 THEN 0 ELSE Base(ks, lists, k - 1) + Len(lists[ks[k - 1]])
PosOf(ks, u) == CHOOSE k \in 1..Len(ks) : ks[k] = u
LoadTasks(rec) ==
  LET ks == rec.keys
      ts == [u \in DOMAIN rec.lists |->
               [i \in 1..Len(rec.lists[u]) |-> Base(ks, rec.lists, PosOf(ks, u)) + i]]
      f == Flat(ks, ts)
  IN [keys |-> ks, tasks |-> ts,
      heap |-> [r \in 1..Len(f) |-> rec.lists[f[r].userId][f[r].index]]]

DefaultReminders == <<S24h, S1h>>
DefaultRetention == 10
LoadConfig(file) ==
  [reminders |-> IF file.hasReminders THEN file.reminders ELSE DefaultReminders,
   backupRetention |-> IF file.hasRetention THEN file.backupRetention
                       ELSE DefaultRetention]
SerializeConfig(c) ==
  [hasReminders |-> TRUE, reminders |-> c.reminders,
   hasRetention |-> TRUE, backupRetention |-> c.backupRetention]

Content(kind) ==
  CASE kind = "tasks" -> SerializeTasks(keys, tasks, heap)
    [] kind = "departments" -> departments
    [] kind = "managers" -> managers
    [] kind = "config" -> SerializeConfig(config)

EmptyTasksFile == [keys |-> <<>>, lists |-> <<>>]
EmptyConfigFile == [hasReminders |-> FALSE, reminders |-> <<>>,
                    hasRetention |-> FALSE, backupRetention |-> 0]
NoFile == [state |-> "absent"]
Partial == [state |-> "partial"]
Whole(c) == [state |-> "whole", content |-> c]
NoWaiting == [k \in Kinds |-> 0]
Waiting == waiting["tasks"] + waiting["departments"] + waiting["managers"]
           + waiting["config"]
\* The operations inside safeSave's try block, and the one of them, if any,
\* whose save function is running.
SyncPcs == {"write", "writing", "rename", "backup", "prune", "push"}
Busy == \E i \in 1..Len(holders) : holders[i].pc \in SyncPcs
Cur == CHOOSE i \in 1..Len(holders) : holders[i].pc \in SyncPcs
\* readJson: the parsed content, or {} when the file cannot be parsed.
readJson(file, empty) == IF file.state = "whole" THEN file.content ELSE empty

\* ------------------------------------------------------------------- init
InitWith(modes, retentions, reminders) ==
  /\ keys = <<>> /\ tasks = <<>> /\ heap = <<>>
  /\ departments = <<>> /\ managers = {}
  /\ \E n \in retentions, ws \in reminders :
       /\ disk = [tasks |-> Whole(EmptyTasksFile), departments |-> Whole(<<>>),
                  managers |-> Whole({}),
                  config |-> Whole([hasReminders |-> ws # SOverdue, reminders |-> ws,
                                    hasRetention |-> n # 0, backupRetention |-> n])]
       /\ config = LoadConfig(readJson(disk.config, EmptyConfigFile))
  /\ tmp = [k \in Kinds |-> NoFile]
  /\ backups = [k \in Kinds |-> {}]
  /\ isSaving = FALSE /\ holders = <<>> /\ waiting = NoWaiting
  /\ gitMode \in modes /\ gitJobs = <<>>
  /\ now = 1 /\ ready = FALSE /\ scans = <<>>
  /\ sent = {} /\ resent = {}
  /\ last = [op |-> "none", outcome |-> "none"]

\* ---------------------------------------------------------------- handlers
LogE(a, status, by, key) == [action |-> a, status |-> status, by |-> by, key |-> key]
Put(f, k, v) == [x \in DOMAIN f \cup {k} |-> IF x = k THEN v ELSE f[x]]

\* A handler runs once the client is ready and no synchronous save is under way.
Run == ready /\ ~Busy

\* Room for one more save request within the bounds of the model.
CanSave ==
  /\ isSaving => Waiting < MaxWaiting
  /\ gitMode = "simple" =>
       Len(gitJobs) + Waiting + (IF isSaving THEN 1 ELSE 0) < MaxJobs

\* await safeSave(fn): with the guard free it is taken and fn starts in the same
\* synchronous run; otherwise the handler polls every 50 ms.
EnterSaveUnguarded(kind) ==
  /\ isSaving' = TRUE
  /\ holders' = Append(holders, [kind |-> kind, pc |-> "write"])
  /\ waiting' = waiting
\* A save that is given up when the guard is taken.
EnterSaveOrSkip(kind) ==
  IF ~isSaving
  THEN /\ isSaving' = TRUE
       /\ holders' = Append(holders, [kind |-> kind, pc |-> "write"])
       /\ waiting' = waiting
  ELSE UNCHANGED <<isSaving, holders, waiting>>
EnterSave(kind) ==
  IF ~isSaving
  THEN /\ isSaving' = TRUE
       /\ holders' = Append(holders, [kind |-> kind, pc |-> "write"])
       /\ waiting' = waiting
  ELSE /\ waiting' = [waiting EXCEPT ![kind] = @ + 1]
       /\ UNCHANGED <<isSaving, holders>>

Reply(op, outcome) == last' = [op |-> op, outcome |-> outcome]
\* A refusal answered only after the task store has been handed to a save.
RejectedAfterSave(op, outcome) ==
  /\ Reply(op, outcome)
  /\ CanSave
  /\ EnterSave("tasks")
  /\ UNCHANGED <<memVars, departments, managers, config, diskVars,
                 gitMode, now, ready, scans, histVars>>
Rejected(op, outcome) ==
  /\ Reply(op, outcome)
  /\ UNCHANGED <<memVars, departments, managers, config, saveVars, diskVars,
                 gitMode, now, ready, scans, histVars>>
restOfTaskCmd == <<departments, managers, config, diskVars, gitMode, now, ready,
                   histVars>>

TaskCreate(p, dueIn) ==
  /\ Run /\ CanSave
  /\ EntryCount(keys, tasks) < MaxRefs /\ DOMAIN heap # Refs
  /\ LET r == NewRef(heap)
         task == NewTask(now, parseDue(dueIn), p, <<p>>, NoDept,
                         LogE("Created", "", "", <<>>))
         m == PushEntry(keys, tasks, p, r)
     IN /\ heap' = heap @@ (r :> task)
        /\ keys' = m.keys /\ tasks' = m.tasks
  /\ EnterSave("tasks")
  /\ Reply("task-create", "ok")
  /\ UNCHANGED <<restOfTaskCmd, scans>>

\* The target looked up by id, else always in the principal's own list.
ResolveOwnOnly(p, id, index) ==
  IF id # 0 THEN findTaskById(keys, tasks, heap, id)
  ELSE LET ulist == ListOf(tasks, p)
       IN IF index < 1 \/ index > Len(ulist) THEN NotFoundRec
          ELSE [kind |-> "found", userId |-> p, index |-> index,
                task |-> ulist[index]]
\* The target of task-update and task-delete: by id, else by index into the
\* deduplicated list (privileged) or into the principal's own list.
Resolve(p, id, index) ==
  IF id # 0 THEN findTaskById(keys, tasks, heap, id)
  ELSE IF isAdminOrManager(managers, p) /\ index # 0
  THEN LET all == getAllTasksUnique(keys, tasks, heap)
       IN IF index < 1 \/ index > Len(all) THEN NotFoundRec
          ELSE findTaskById(keys, tasks, heap, IdAt(tasks, heap, all[index]))
  ELSE LET ulist == ListOf(tasks, p)
       IN IF index = 0 \/ index < 1 \/ index > Len(ulist) THEN NotFoundRec
          ELSE [kind |-> "found", userId |-> p, index |-> index,
                task |-> ulist[index]]

\* task-update without the check of the assignment.
UpdateOutcomeOpen(p, id, index, status) ==
  LET f == Resolve(p, id, index)
  IN IF f.kind = "none" THEN "NotFound"
     ELSE IF ~Has(Valid, status) THEN "InvalidStatus"
     ELSE "ok"
\* task-update without the check of the status string.
UpdateOutcomeAnyStatus(p, id, index, status) ==
  LET f == Resolve(p, id, index)
  IN IF f.kind = "none" THEN "NotFound"
     ELSE IF ~isAdminOrManager(managers, p) /\ ~Has(heap[f.task].assignedTo, p)
     THEN "Forbidden"
     ELSE "ok"
\* The checks of task-update in the order the handler makes them.
UpdateOutcome(p, id, index, status) ==
  LET f == Resolve(p, id, index)
  IN IF f.kind = "none" THEN "NotFound"
     ELSE IF ~isAdminOrManager(managers, p) /\ ~Has(heap[f.task].assignedTo, p)
     THEN "Forbidden"
     ELSE IF ~Has(Valid, status) THEN "InvalidStatus"
     ELSE "ok"

TaskUpdate(p, id, index, status) ==
  /\ Run
  /\ LET f == Resolve(p, id, index)
         out == UpdateOutcome(p, id, index, status)
     IN IF out # "ok" THEN Rejected("task-update", out)
        ELSE /\ CanSave
             /\ Len(heap[f.task].logs) < MaxLog
             /\ heap' = [heap EXCEPT ![f.task].status = status,
                                     ![f.task].logs =
                                        Append(@, LogE("Status set", status, p, <<>>))]
             /\ tasks' = [tasks EXCEPT ![f.userId][f.index] = f.task]
             /\ EnterSave("tasks")
             /\ Reply("task-update", "ok")
             /\ UNCHANGED <<keys, restOfTaskCmd, scans>>

DeleteOutcome(p, id, index) ==
  LET f == Resolve(p, id, index)
  IN IF f.kind = "none" THEN "NotFound"
     ELSE IF ~isAdminOrManager(managers, p) /\ ~Has(heap[f.task].assignedTo, p)
     THEN "Forbidden"
     ELSE "ok"

TaskDelete(p, id, index) ==
  /\ Run
  /\ LET f == Resolve(p, id, index)
         out == DeleteOutcome(p, id, index)
     IN IF out # "ok" THEN Rejected("task-delete", out)
        ELSE /\ CanSave
             /\ tasks' = [tasks EXCEPT ![f.userId] = RemoveAt(@, f.index)]
             /\ heap' = Collect(heap, tasks', scans)
             /\ EnterSave("tasks")
             /\ Reply("task-delete", "ok")
             /\ UNCHANGED <<keys, restOfTaskCmd, scans>>

Members(dept) ==
  IF dept # NoDept /\ dept \in DOMAIN departments THEN departments[dept] ELSE <<>>

\* task-assign without the check of the resolved array.
AssignOutcomeUnchecked(p, dept, users) ==
  IF ~isAdminOrManager(managers, p) THEN "Forbidden" ELSE "ok"
\* The checks of task-assign in the order the handler makes them.
AssignOutcome(p, dept, users) ==
  IF ~isAdminOrManager(managers, p) THEN "Forbidden"
  ELSE IF Dedup(users \o Members(dept)) = <<>> THEN "EmptyAssignment"
  ELSE "ok"

TaskAssign(p, dueIn, dept, users) ==
  /\ Run
  /\ LET out == AssignOutcome(p, dept, users)
         assigned == Dedup(users \o Members(dept))
     IN IF out # "ok" THEN Rejected("task-assign", out)
        ELSE /\ CanSave
             /\ EntryCount(keys, tasks) + Len(assigned) <= MaxRefs
             /\ DOMAIN heap # Refs
             /\ LET r == NewRef(heap)
                    task == NewTask(now, parseDue(dueIn), p, assigned, dept,
                                    LogE("Assigned", "", p, <<>>))
                    m == PushAll(keys, tasks, assigned, r)
                IN /\ heap' = heap @@ (r :> task)
                   /\ keys' = m.keys /\ tasks' = m.tasks
             /\ EnterSave("tasks")
             /\ Reply("task-assign", "ok")
             /\ UNCHANGED <<restOfTaskCmd, scans>>

\* assignedTo.push(uid) for each uid of toAdd not yet included.
RECURSIVE AddEach(_, _)
AddEach(assigned, toAdd) ==
  IF toAdd = <<>> THEN assigned
  ELSE AddEach(IF Has(assigned, Head(toAdd)) THEN assigned
               ELSE Append(assigned, Head(toAdd)), Tail(toAdd))

\* A suspended tick iterates the array object it found in t.assignedTo: a push
\* on that array is seen by it, an array put in its place by filter() is not.
Relink(scs, r, grown, replaced) ==
  [i \in 1..Len(scs) |->
     IF scs[i].t = r /\ scs[i].linked
     THEN [scs[i] EXCEPT !.recips = IF replaced THEN @ ELSE grown,
                         !.linked = ~replaced]
     ELSE scs[i]]

TaskAddAssignee(p, id, dept, users) ==
  /\ Run
  /\ IF ~isAdminOrManager(managers, p) THEN Rejected("task-add-assignee", "Forbidden")
     ELSE LET f == findTaskById(keys, tasks, heap, id)
          IN IF f.kind = "none" THEN Rejected("task-add-assignee", "NotFound")
             ELSE LET toAdd == users \o Members(dept)
                      grown == AddEach(heap[f.task].assignedTo, toAdd)
                      m == PushAll(keys, tasks, toAdd, f.task)
                  IN /\ CanSave
                     /\ EntryCount(keys, tasks) + Len(toAdd) <= MaxRefs
                     /\ Len(heap[f.task].logs) < MaxLog
                     /\ heap' = [heap EXCEPT
                                   ![f.task].assignedTo = grown,
                                   ![f.task].logs =
                                      Append(@, LogE("Assignees added", "", p, <<>>))]
                     /\ keys' = m.keys /\ tasks' = m.tasks
                     /\ scans' = Relink(scans, f.task, grown, FALSE)
                     /\ EnterSave("tasks")
                     /\ Reply("task-add-assignee", "ok")
                     /\ UNCHANGED restOfTaskCmd

\* For each user: filter it out of assignedTo and splice the first entry with
\* the task's id out of that user's collection.
FirstWithId(l, h, id) ==
  LET hit == {i \in 1..Len(l) : h[l[i]].id = id}
  IN IF hit = {} THEN 0 ELSE Min(hit)
RECURSIVE SpliceEach(_, _, _, _)
SpliceEach(ts, h, id, us) ==
  IF us = <<>> THEN ts
  ELSE LET u == Head(us)
           i == FirstWithId(ListOf(ts, u), h, id)
       IN SpliceEach(IF i = 0 THEN ts ELSE [ts EXCEPT ![u] = RemoveAt(@, i)],
                     h, id, Tail(us))

TaskRemoveAssignee(p, id, users) ==
  /\ Run
  /\ IF ~isAdminOrManager(managers, p)
     THEN Rejected("task-remove-assignee", "Forbidden")
     ELSE LET f == findTaskById(keys, tasks, heap, id)
          IN IF f.kind = "none" THEN Rejected("task-remove-assignee", "NotFound")
             ELSE LET t == heap[f.task]
                      kept == Filter(t.assignedTo, Users \ Range(users))
                      h1 == [heap EXCEPT
                               ![f.task].assignedTo = kept,
                               ![f.task].logs =
                                  Append(@, LogE("Assignees removed", "", p, <<>>))]
                  IN /\ CanSave
                     /\ Len(t.logs) < MaxLog
                     /\ tasks' = SpliceEach(tasks, heap, t.id, users)
                     /\ scans' = IF users = <<>> THEN scans
                                  ELSE Relink(scans, f.task, <<>>, TRUE)
                     /\ heap' = Collect(h1, tasks', scans')
                     /\ EnterSave("tasks")
                     /\ Reply("task-remove-assignee", "ok")
                     /\ UNCHANGED <<keys, restOfTaskCmd>>

\* task-list: the deduplicated set for an admin or manager, else the entries
\* of the principal's own collection (entries are [userId, index]).
taskListForAll(p) == getAllTasksUnique(keys, tasks, heap)
taskList(p) ==
  IF isAdminOrManager(managers, p) THEN getAllTasksUnique(keys, tasks, heap)
  ELSE [i \in 1..Len(ListOf(tasks, p)) |-> [userId |-> p, index |-> i]]

TaskList(p) ==
  /\ Run
  /\ Reply("task-list", IF taskList(p) = <<>> THEN "empty" ELSE "ok")
  /\ UNCHANGED <<memVars, departments, managers, config, saveVars, diskVars,
                 gitMode, now, ready, scans, histVars>>

SearchLimit == 5
TaskSearch(p, q) ==
  /\ Run
  /\ Reply("task-search", IF fuzzySearchTasks(q, SearchLimit) = <<>> THEN "empty" ELSE "ok")
  /\ UNCHANGED <<memVars, departments, managers, config, saveVars, diskVars,
                 gitMode, now, ready, scans, histVars>>

\* export: the deduplicated set for an admin or manager, else the entries of
\* the principal's own collection; nothing is sent when there are none.
exportTasks(p) ==
  IF isAdminOrManager(managers, p) THEN getAllTasksUnique(keys, tasks, heap)
  ELSE [i \in 1..Len(ListOf(tasks, p)) |-> [userId |-> p, index |-> i]]
Export(p) ==
  /\ Run
  /\ Reply("export", IF exportTasks(p) = <<>> THEN "empty" ELSE "ok")
  /\ UNCHANGED <<memVars, departments, managers, config, saveVars, diskVars,
                 gitMode, now, ready, scans, histVars>>

restOfRegistryCmd == <<memVars, diskVars, gitMode, now, ready, scans, histVars>>

DepartmentAdd(p, name, members) ==
  /\ Run
  /\ IF ~isAdmin(p) THEN Rejected("department-add", "Forbidden")
     ELSE /\ CanSave
          /\ departments' = Put(departments, name, members)
          /\ EnterSave("departments")
          /\ Reply("department-add", "ok")
          /\ UNCHANGED <<restOfRegistryCmd, managers, config>>

DepartmentAddMember(p, name, member) ==
  /\ Run
  /\ IF ~isAdmin(p) THEN Rejected("department-add-member", "Forbidden")
     ELSE LET cur == IF name \in DOMAIN departments THEN departments[name] ELSE <<>>
          IN /\ CanSave
             /\ departments' =
                  Put(departments, name, IF Has(cur, member) THEN cur
                                         ELSE Append(cur, member))
             /\ EnterSave("departments")
             /\ Reply("department-add-member", "ok")
             /\ UNCHANGED <<restOfRegistryCmd, managers, config>>

DepartmentRemoveMember(p, name, member) ==
  /\ Run
  /\ IF ~isAdmin(p) THEN Rejected("department-remove-member", "Forbidden")
     ELSE IF name \notin DOMAIN departments
     THEN Rejected("department-remove-member", "NotFound")
     ELSE /\ CanSave
          /\ departments' =
               [departments EXCEPT ![name] = Filter(@, Users \ {member})]
          /\ EnterSave("departments")
          /\ Reply("department-remove-member", "ok")
          /\ UNCHANGED <<restOfRegistryCmd, managers, config>>

ManagerAdd(p, users) ==
  /\ Run
  /\ IF ~isAdmin(p) THEN Rejected("manager-add", "Forbidden")
     ELSE /\ CanSave
          /\ managers' = managers \cup Range(users)
          /\ EnterSave("managers")
          /\ Reply("manager-add", "ok")
          /\ UNCHANGED <<restOfRegistryCmd, departments, config>>

\* value.split(',').map(trim).filter(Boolean), on the pieces of the split.
RECURSIVE TrimAll(_)
TrimAll(pieces) ==
  IF pieces = <<>> THEN <<>>
  ELSE (IF Trim(Head(pieces)) = <<>> THEN <<>> ELSE <<Trim(Head(pieces))>>)
       \o TrimAll(Tail(pieces))

SetReminders(p, pieces) ==
  /\ Run
  /\ IF ~isAdmin(p) THEN Rejected("set-reminders", "Forbidden")
     ELSE /\ CanSave
          /\ config' = [config EXCEPT !.reminders = TrimAll(pieces)]
          /\ EnterSave("config")
          /\ Reply("set-reminders", "ok")
          /\ UNCHANGED <<restOfRegistryCmd, departments, managers>>

\* ------------------------------------------------------------ save sequence
\* The file system as a value: the four records, their temporary files, the
\* backup names per record and the simple-git chains under way.
FS == [disk |-> disk, tmp |-> tmp, backups |-> backups, gitJobs |-> gitJobs]
SetFS(fs) ==
  /\ disk' = fs.disk /\ tmp' = fs.tmp /\ backups' = fs.backups
  /\ gitJobs' = fs.gitJobs

\* atomicWrite: writeFileSync(tmp) creates the temporary file, then fills it;
\* renameSync(tmp, file) puts it in place.
\* A write that opens the record itself.
WriteInPlace(fs, kind) == [fs EXCEPT !.disk[kind] = Partial]
WriteOpen(fs, kind) == [fs EXCEPT !.tmp[kind] = Partial]
WriteFill(fs, kind, content) == [fs EXCEPT !.tmp[kind] = Whole(content)]
Rename(fs, kind) ==
  [fs EXCEPT !.disk[kind] = fs.tmp[kind], !.tmp[kind] = NoFile]
atomicWrite(fs, kind, content) ==
  Rename(WriteFill(WriteOpen(fs, kind), kind, content), kind)

\* backupFile: copy under a name made of the record's name and the time stamp,
\* then unlink files.sort().slice(0, files.length - keep).
Keep(c) == IF c.backupRetention = 0 THEN DefaultRetention ELSE c.backupRetention
\* The files sorted newest first: the n newest are removed.
RECURSIVE DropNewest(_, _)
DropNewest(files, n) ==
  IF n <= 0 \/ files = {} THEN files
  ELSE DropNewest(files \ {CHOOSE x \in files : \A y \in files : y <= x}, n - 1)
RECURSIVE DropOldest(_, _)
DropOldest(files, n) ==
  IF n <= 0 \/ files = {} THEN files ELSE DropOldest(files \ {Min(files)}, n - 1)
BackupCopy(fs, kind, stamp) == [fs EXCEPT !.backups[kind] = @ \cup {stamp}]
BackupPrune(fs, kind, keep) ==
  [fs EXCEPT !.backups[kind] = DropOldest(@, Cardinality(@) - keep)]
backupFile(fs, kind, stamp, keep) == BackupPrune(BackupCopy(fs, kind, stamp), kind, keep)

\* maybeGitPush: nothing when not configured; execSync add/commit/push; or an
\* unawaited async chain whose first call (add) is issued at once.
maybeGitPush(fs, mode) ==
  IF mode = "simple" THEN [fs EXCEPT !.gitJobs = Append(@, "add")] ELSE fs

\* saveTasks / saveDepartments / saveManagers / saveConfig.
SaveOf(fs, kind, content, stamp, keep, mode) ==
  maybeGitPush(backupFile(atomicWrite(fs, kind, content), kind, stamp, keep), mode)

\* safeSave after polling: a waiting handler finds the guard free.
SaveAcquire(kind) ==
  /\ ~Busy /\ ~isSaving /\ waiting[kind] > 0
  /\ isSaving' = TRUE
  /\ holders' = Append(holders, [kind |-> kind, pc |-> "write"])
  /\ waiting' = [waiting EXCEPT ![kind] = @ - 1]
  /\ UNCHANGED <<memVars, departments, managers, config, diskVars, gitMode, now,
                 ready, scans, histVars, last>>

At(pc) == Busy /\ holders[Cur].pc = pc
Goto(pc) == holders' = [holders EXCEPT ![Cur].pc = pc]
restOfSaveStep == <<memVars, departments, managers, config, isSaving, waiting,
                    gitMode, now, ready, scans, histVars, last>>

\* fn() of safeSave as one synchronous run, which it is unless the process
\* stops inside it.
SaveSync ==
  /\ At("write") /\ Goto("done")
  /\ SetFS(SaveOf(FS, holders[Cur].kind, Content(holders[Cur].kind), now, Keep(config), gitMode))
  /\ UNCHANGED restOfSaveStep

\* The same run step by step, for what a stop of the process leaves behind.
SaveOpenTmp ==
  /\ At("write") /\ Goto("writing")
  /\ SetFS(WriteOpen(FS, holders[Cur].kind))
  /\ UNCHANGED restOfSaveStep

SaveWriteTmp ==
  /\ At("writing") /\ Goto("rename")
  /\ SetFS(WriteFill(FS, holders[Cur].kind, Content(holders[Cur].kind)))
  /\ UNCHANGED restOfSaveStep

SaveRename ==
  /\ At("rename") /\ Goto("backup")
  /\ SetFS(Rename(FS, holders[Cur].kind))
  /\ UNCHANGED restOfSaveStep

SaveBackupCopy ==
  /\ At("backup") /\ Goto("prune")
  /\ SetFS(BackupCopy(FS, holders[Cur].kind, now))
  /\ UNCHANGED restOfSaveStep

SaveBackupPrune ==
  /\ At("prune") /\ Goto("push")
  /\ SetFS(BackupPrune(FS, holders[Cur].kind, Keep(config)))
  /\ UNCHANGED restOfSaveStep

\* backupFile: an error of the copy or of the pruning is caught and logged.
SaveBackupFails ==
  /\ (At("backup") \/ At("prune")) /\ Goto("push")
  /\ UNCHANGED <<diskVars, restOfSaveStep>>

\* A failed write whose guard stays taken: the operation is gone, isSaving is
\* left as it is.
SaveThrowsHolding ==
  /\ (At("write") \/ At("writing") \/ At("rename"))
  /\ holders' = RemoveAt(holders, Cur)
  /\ UNCHANGED <<diskVars, restOfSaveStep>>
\* writeFileSync or renameSync of atomicWrite throws: fn() rejects, and the
\* finally block of safeSave runs when the await settles.
SaveThrows ==
  /\ (At("write") \/ At("writing") \/ At("rename")) /\ Goto("done")
  /\ UNCHANGED <<diskVars, restOfSaveStep>>

SavePush ==
  /\ At("push") /\ Goto("done")
  /\ SetFS(maybeGitPush(FS, gitMode))
  /\ UNCHANGED restOfSaveStep

\* The steps of the simple-git chain: add, commit, push.
GitStep(i) ==
  /\ ~Busy /\ i \in 1..Len(gitJobs)
  /\ gitJobs' = IF gitJobs[i] = "add" THEN [gitJobs EXCEPT ![i] = "commit"]
                ELSE IF gitJobs[i] = "commit" THEN [gitJobs EXCEPT ![i] = "push"]
                ELSE RemoveAt(gitJobs, i)
  /\ UNCHANGED <<memVars, departments, managers, config, disk, tmp, backups,
                 saveVars, gitMode, now, ready, scans, histVars, last>>

\* safeSave: finally { isSaving = false }, after the await of fn().
SaveRelease(i) ==
  /\ ~Busy /\ i \in 1..Len(holders) /\ holders[i].pc = "done"
  /\ isSaving' = FALSE /\ holders' = RemoveAt(holders, i)
  /\ UNCHANGED <<memVars, departments, managers, config, diskVars, waiting,
                 gitMode, now, ready, scans, histVars, last>>

\* ------------------------------------------------------ process start, clock
\* The process stops at any point and starts again: module-level load.
Restart ==
  /\ LET m == LoadTasks(readJson(disk.tasks, EmptyTasksFile))
     IN keys' = m.keys /\ tasks' = m.tasks /\ heap' = m.heap
  /\ departments' = readJson(disk.departments, <<>>)
  /\ managers' = readJson(disk.managers, {})
  /\ config' = LoadConfig(readJson(disk.config, EmptyConfigFile))
  /\ isSaving' = FALSE /\ holders' = <<>> /\ waiting' = NoWaiting
  /\ gitJobs' = <<>> /\ scans' = <<>> /\ ready' = FALSE
  /\ last' = [op |-> "none", outcome |-> "none"]
  /\ UNCHANGED <<disk, tmp, backups, gitMode, now, histVars>>

\* A call of the simple-git chain rejects. The chain is an async function
\* nobody awaits and that has no catch: the rejection is unhandled, and the
\* runtime either reports it and goes on or ends the process, which is then
\* started again.
GitFails(i) ==
  /\ ~Busy /\ i \in 1..Len(gitJobs)
  /\ \/ /\ gitJobs' = RemoveAt(gitJobs, i)
        /\ UNCHANGED <<memVars, departments, managers, config, disk, tmp, backups,
                       saveVars, gitMode, now, ready, scans, histVars, last>>
     \/ Restart

\* A marking that does not look at the Overdue status.
PastDueAgain(x, t) == x.due # 0 /\ x.status # "Done" /\ x.due < t
\* t.due && t.status !== 'Done', dueDate < now && t.status !== 'Overdue'.
PastDue(x, t) == x.due # 0 /\ x.status # "Done" /\ x.due < t /\ x.status # "Overdue"

\* ClientReady: mark overdue tasks, entry by entry in scan order.
RECURSIVE ReconcileRefs(_, _, _)
ReconcileRefs(h, refs, t) ==
  IF refs = <<>> THEN h
  ELSE LET r == Head(refs)
           x == h[r]
           h1 == IF PastDue(x, t)
                 THEN [h EXCEPT ![r].status = "Overdue",
                                ![r].logs = Append(@, LogE("Auto-marked overdue on startup",
                                                           "", "", <<>>))]
                 ELSE h
       IN ReconcileRefs(h1, Tail(refs), t)
FlatRefs(ks, ts) == LET f == Flat(ks, ts) IN [j \in 1..Len(f) |-> RefAt(ts, f[j])]
Reconcile(ks, ts, h, t) == ReconcileRefs(h, FlatRefs(ks, ts), t)

ClientReady ==
  /\ ~ready /\ ~Busy
  /\ ready' = TRUE
  /\ heap' = Reconcile(keys, tasks, heap, now)
  /\ IF heap' # heap THEN EnterSave("tasks") ELSE UNCHANGED saveVars
  /\ UNCHANGED <<keys, tasks, departments, managers, config, diskVars, gitMode,
                 now, scans, histVars, last>>

Advance(t) ==
  /\ ~Busy /\ t \in ClockReadings /\ t > now
  /\ now' = t
  /\ UNCHANGED <<memVars, departments, managers, config, diskVars, saveVars,
                 gitMode, ready, scans, histVars, last>>

\* ------------------------------------------------------------ reminder scan
NewScan ==
  [now |-> now, windows |-> WindowsOf(config.reminders), changed |-> FALSE,
   ki |-> 1, li |-> 0, t |-> 0, diff |-> 0, stage |-> "none", wi |-> 0,
   recips |-> <<>>, linked |-> FALSE, ai |-> 0, pc |-> "next"]

KeyOf(sc) == IF sc.stage = "overdue" THEN SOverdue ELSE sc.windows[sc.wi].key
\* A scan that also passes over the tasks already marked Overdue.
ExcludedOrMarked(t) == t.due = 0 \/ t.status = "Done" \/ t.status = "Overdue"
\* if (!t.due) continue; if (t.status === 'Done') continue;
Excluded(t) == t.due = 0 \/ t.status = "Done"
\* diffMins = (dueDate - now) / (1000*60), kept in milliseconds.
DiffOf(t, at) == t.due - at
IsOverdue(diff) == diff < 0
InWindow(diff, mins) == diff > 0 /\ diff <= mins * MsPerMin
AlreadySent(t, key) == Has(t.remindersSent, key)
\* A scan that records the key only with the log entry, after the deliveries.
RecordLater(h, r, key) == h
\* A scan that also marks the task when it records the overdue notice.
RecordAndMark(h, r, key) ==
  [h EXCEPT ![r].remindersSent = Append(@, key),
            ![r].status = IF key = SOverdue THEN "Overdue" ELSE @]
Record(h, r, key) == [h EXCEPT ![r].remindersSent = Append(@, key)]
LogFire(h, r, key) ==
  [h EXCEPT ![r].logs = Append(@, LogE("Reminder sent", "", "", key))]
\* A tick whose delivery error is not caught: it ends there, nothing saved.
AfterAttemptThrows(sc, delivered) ==
  IF delivered THEN [sc EXCEPT !.pc = "attempted"]
  ELSE [sc EXCEPT !.pc = "end", !.changed = FALSE]
\* try { fetch; send } catch (e) { /* ignore */ }: the loop goes on either way.
AfterAttempt(sc, delivered) == [sc EXCEPT !.pc = "attempted"]

\* The tick from its current position up to its next await (a delivery) or its
\* end. ki/li: position of the Map and array iterators, both live.
RECURSIVE RunScan(_, _, _, _)
RunScan(ks, ts, h, sc) ==
  CASE sc.pc = "next" ->
         IF sc.ki > Len(ks) THEN [h |-> h, sc |-> [sc EXCEPT !.pc = "end"]]
         ELSE IF sc.li + 1 > Len(ts[ks[sc.ki]])
         THEN RunScan(ks, ts, h, [sc EXCEPT !.ki = @ + 1, !.li = 0])
         ELSE LET r == ts[ks[sc.ki]][sc.li + 1]
                  t == h[r]
                  at == [sc EXCEPT !.li = @ + 1, !.t = r, !.diff = DiffOf(t, sc.now)]
              IN IF Excluded(t)
                 THEN RunScan(ks, ts, h, [sc EXCEPT !.li = @ + 1])
                 ELSE IF IsOverdue(at.diff) /\ ~AlreadySent(t, SOverdue)
                 THEN RunScan(ks, ts, Record(h, r, SOverdue),
                              [at EXCEPT !.stage = "overdue", !.pc = "fire"])
                 ELSE RunScan(ks, ts, h, [at EXCEPT !.wi = 1, !.pc = "window"])
    [] sc.pc = "window" ->
         IF sc.wi > Len(sc.windows) THEN RunScan(ks, ts, h, [sc EXCEPT !.pc = "next"])
         ELSE LET w == sc.windows[sc.wi]
              IN IF AlreadySent(h[sc.t], w.key)
                 THEN RunScan(ks, ts, h, [sc EXCEPT !.wi = @ + 1])
                 ELSE IF InWindow(sc.diff, w.mins)
                 THEN RunScan(ks, ts, Record(h, sc.t, w.key),
                              [sc EXCEPT !.stage = "window", !.pc = "fire"])
                 ELSE RunScan(ks, ts, h, [sc EXCEPT !.wi = @ + 1])
    [] sc.pc = "fire" ->
         LET to == h[sc.t].assignedTo
         IN IF to = <<>> THEN RunScan(ks, ts, h, [sc EXCEPT !.pc = "fired"])
            ELSE [h |-> h, sc |-> [sc EXCEPT !.recips = to, !.linked = TRUE,
                                               !.ai = 1, !.pc = "send"]]
    [] sc.pc = "attempted" ->
         IF sc.ai < Len(sc.recips)
         THEN [h |-> h, sc |-> [sc EXCEPT !.ai = @ + 1, !.pc = "send"]]
         ELSE RunScan(ks, ts, h, [sc EXCEPT !.pc = "fired"])
    [] sc.pc = "fired" ->
         RunScan(ks, ts, LogFire(h, sc.t, KeyOf(sc)),
                 [sc EXCEPT !.changed = TRUE, !.pc = "window",
                            !.wi = IF sc.stage = "overdue" THEN 1 ELSE @ + 1,
                            !.recips = <<>>, !.linked = FALSE, !.ai = 0])
    [] OTHER -> [h |-> h, sc |-> sc]

\* The tick has run to its end: if (changed) await safeSave(saveTasks).
ScanEnds(sc) ==
  IF sc.changed THEN CanSave /\ EnterSave("tasks") ELSE UNCHANGED saveVars

ScanStartUpTo(n) ==
  /\ Run /\ Len(scans) < n
  /\ LET res == RunScan(keys, tasks, heap, NewScan)
     IN /\ heap' = res.h
        /\ IF res.sc.pc = "end"
           THEN scans' = scans /\ ScanEnds(res.sc)
           ELSE scans' = Append(scans, res.sc) /\ UNCHANGED saveVars
  /\ UNCHANGED <<keys, tasks, departments, managers, config, diskVars, gitMode,
                 now, ready, histVars, last>>
ScanStart == ScanStartUpTo(MaxScans)

NoteOf(sc) == <<heap[sc.t].id, KeyOf(sc), sc.recips[sc.ai]>>

\* client.users.fetch(ass) and u.send(msg) for the current recipient settle,
\* delivered or not, and the tick runs on.
ScanSend(i, delivered) ==
  /\ ~Busy /\ i \in 1..Len(scans)
  /\ LET sc == scans[i]
         res == RunScan(keys, tasks, heap, AfterAttempt(sc, delivered))
     IN /\ sent' = IF delivered THEN sent \cup {NoteOf(sc)} ELSE sent
        /\ resent' = IF delivered /\ NoteOf(sc) \in sent
                     THEN resent \cup {NoteOf(sc)} ELSE resent
        /\ IF res.sc.pc = "end"
           THEN scans' = RemoveAt(scans, i) /\ ScanEnds(res.sc)
           ELSE scans' = [scans EXCEPT ![i] = res.sc] /\ UNCHANGED saveVars
        /\ heap' = Collect(res.h, tasks, scans')
  /\ UNCHANGED <<keys, tasks, departments, managers, config, diskVars, gitMode,
                 now, ready, last>>

\* --------------------------------------------------------- specifications
SFoo == <<"f", "o", "o">>
TitleInputs == {SFoo, <<"F", "o", "o">>, <<"x">> \o SFoo, <<"o", "f">>}
DescriptionInputs == {<<>>, <<"x", "F", "O", "O">>}
QueryInputs == {SFoo, <<"F", "O", "O">>, <<"o">>, <<"f", "f">>, <<"x">>, <<>>}
UserLists == {<<>>} \cup {<<u>> : u \in Users}
             \cup {<<p[1], p[2]>> : p \in {q \in Users \X Users : q[1] # q[2]}}
DeptInputs == DeptNames \cup {NoDept}
IdInputs == {0, 7} \cup {heap[r].id : r \in DOMAIN heap}
Selectors == {[id |-> i, index |-> x] : i \in IdInputs \ {0}, x \in {0, 1}}
             \cup {[id |-> 0, index |-> x] : x \in (0 - 1)..(MaxRefs + 1)}
WindowInputs == {<<>>, <<S1h>>, <<S30m, S1h>>, <<SOverdue, <<" ">>, S45>>}

Absent == [kind |-> "absent", ms |-> 0]

TaskCommand(dues, statuses) ==
  \/ \E p \in Users, d \in dues : TaskCreate(p, d)
  \/ \E p \in Users, s \in Selectors, st \in statuses :
       TaskUpdate(p, s.id, s.index, st)
  \/ \E p \in Users, s \in Selectors : TaskDelete(p, s.id, s.index)
  \/ \E p \in Users, d \in dues, dept \in DeptInputs, us \in UserLists :
       TaskAssign(p, d, dept, us)
  \/ \E p \in Users, id \in IdInputs, dept \in DeptInputs, us \in UserLists :
       TaskAddAssignee(p, id, dept, us)
  \/ \E p \in Users, id \in IdInputs, us \in UserLists : TaskRemoveAssignee(p, id, us)
  \/ \E p \in Users : TaskList(p)
  \/ \E p \in Users, q \in QueryInputs : TaskSearch(p, q)
  \/ \E p \in Users : Export(p)

RegistryCommand ==
  \/ \E p \in Users, n \in DeptNames, us \in UserLists : DepartmentAdd(p, n, us)
  \/ \E p \in Users, n \in DeptNames, u \in Users : DepartmentAddMember(p, n, u)
  \/ \E p \in Users, n \in DeptNames, u \in Users : DepartmentRemoveMember(p, n, u)
  \/ \E p \in Users, us \in UserLists : ManagerAdd(p, us)
  \/ \E p \in Users, ws \in WindowInputs : SetReminders(p, ws)

SaveStep ==
  \/ \E k \in Kinds : SaveAcquire(k)
  \/ SaveOpenTmp
  \/ SaveWriteTmp
  \/ SaveRename
  \/ SaveBackupCopy
  \/ SaveBackupPrune
  \/ SaveBackupFails
  \/ SavePush
  \/ \E i \in 1..Len(holders) : SaveRelease(i)

Scan ==
  \/ ScanStart
  \/ \E i \in 1..MaxScans, ok \in BOOLEAN : ScanSend(i, ok)

\* config.json as found at the first start: a retention of 0 and the reminder
\* list SOverdue stand for a file without that field.
FileDefault == SOverdue
Init == InitWith({"off"}, {1}, {FileDefault})

\* The task store under commands, with save and reload.
StoreSelectors == {[id |-> i, index |-> 0] : i \in IdInputs \ {0}}
                  \cup {[id |-> 0, index |-> x] : x \in 1..MaxRefs}
SaveCoarse ==
  \/ \E k \in Kinds : SaveAcquire(k)
  \/ SaveSync
  \/ \E i \in 1..Len(holders) : SaveRelease(i)
NextStore ==
  \/ \E p \in Users : TaskCreate(p, Absent)
  \/ \E p \in Users : TaskAssign(p, Absent, NoDept, <<"u1", "u2">>)
  \/ \E p \in Users, s \in StoreSelectors, st \in {"Done", "Archived"} :
       TaskUpdate(p, s.id, s.index, st)
  \/ \E p \in Users, s \in StoreSelectors : TaskDelete(p, s.id, s.index)
  \/ SaveCoarse
  \/ ClientReady
  \/ Restart
  \/ Advance(1 + Stride)
SpecStore == Init /\ [][NextStore]_vars

\* task-update and task-delete by the owner, a member and a manager, and an
\* assignment that names nobody.
NextAccess ==
  \/ \E p \in Users : TaskCreate(p, Absent)
  \/ \E p \in Users : TaskAssign(p, Absent, NoDept, <<>>)
  \/ \E p \in Users, s \in StoreSelectors, st \in {"Done", "Archived"} :
       TaskUpdate(p, s.id, s.index, st)
  \/ \E p \in Users, s \in StoreSelectors : TaskDelete(p, s.id, s.index)
  \/ \E p \in Users : ManagerAdd(p, <<"u2">>)
  \/ SaveCoarse
  \/ ClientReady
  \/ Restart
SpecAccess == Init /\ [][NextAccess]_vars

\* Listing by the owner, a member and a manager over tasks with distinct ids.
NextList ==
  \/ \E p \in Users : TaskCreate(p, Absent)
  \/ TaskAssign("u1", Absent, NoDept, <<"u1", "u2">>)
  \/ \E p \in Users : TaskList(p)
  \/ ManagerAdd("u1", <<"u2">>)
  \/ SaveCoarse
  \/ ClientReady
  \/ Restart
  \/ Advance(1 + Stride)
SpecList == Init /\ [][NextList]_vars

\* Assignment through explicit users and a department, and later additions
\* to the assignees.
NextAssign ==
  \/ \E p \in Users, us \in {<<>>, <<"u2">>} : DepartmentAdd(p, "ops", us)
  \/ \E p \in Users, dept \in DeptInputs, us \in UserLists :
       TaskAssign(p, Absent, dept, us)
  \/ \E p \in Users, id \in IdInputs, dept \in DeptInputs,
        us \in UserLists \cup {<<"u2", "u2">>} :
       TaskAddAssignee(p, id, dept, us)
  \/ SaveCoarse
  \/ ClientReady
SpecAssign == Init /\ [][NextAssign]_vars

\* One task shared by two assignees under status updates and removal of an
\* assignee, with save and reload.
NextShared ==
  \/ TaskAssign("u1", Absent, NoDept, <<"u1", "u2">>)
  \/ \E p \in Users, s \in StoreSelectors, st \in {"Done", "Blocked"} :
       TaskUpdate(p, s.id, s.index, st)
  \/ \E id \in IdInputs, u \in Users : TaskRemoveAssignee("u1", id, <<u>>)
  \/ SaveCoarse
  \/ ClientReady
  \/ Restart
SpecShared == Init /\ [][NextShared]_vars

\* Start-up reconciliation over tasks with and without a due date.
NextBoot ==
  \/ \E d \in {Absent, [kind |-> "date", ms |-> DueA]} : TaskCreate("u2", d)
  \/ TaskAssign("u1", [kind |-> "date", ms |-> DueA], NoDept, <<"u1", "u2">>)
  \/ \E p \in Users, s \in StoreSelectors, st \in {"Done", "Pending", "Archived"} :
       TaskUpdate(p, s.id, s.index, st)
  \/ SaveCoarse
  \/ ClientReady
  \/ Restart
  \/ \E t \in {DueA, DueA + 1} : Advance(t)
SpecBoot == Init /\ [][NextBoot]_vars

\* The save sequence step by step, with the replication modes and a stop of
\* the process at any step.
InitSave == InitWith({"off", "shell", "simple"}, {1}, {FileDefault})
NextSave ==
  \/ TaskCreate("u2", [kind |-> "date", ms |-> DueA])
  \/ ManagerAdd("u1", <<"u2">>)
  \/ SaveStep
  \/ \E i \in 1..MaxJobs : GitStep(i)
  \/ \E i \in 1..MaxJobs : GitFails(i)
  \/ ClientReady
  \/ Restart
  \/ Advance(DueA + 1)
SpecSave == InitSave /\ [][NextSave]_vars

\* The commands reserved to admins and to admins or managers, issued by the
\* owner and by a member who may have been made a manager.
AdminCommand(p) ==
  \/ DepartmentAdd(p, "ops", <<"u2">>)
  \/ DepartmentAddMember(p, "ops", "u1")
  \/ DepartmentRemoveMember(p, "ops", "u2")
  \/ ManagerAdd(p, <<"u2">>)
  \/ SetReminders(p, <<S1h>>)
ManagerCommand(p) ==
  \/ TaskAssign(p, Absent, NoDept, <<"u2">>)
  \/ \E id \in IdInputs : TaskAddAssignee(p, id, NoDept, <<"u1">>)
  \/ \E id \in IdInputs : TaskRemoveAssignee(p, id, <<"u2">>)
NextRoles ==
  \/ \E p \in Users : AdminCommand(p)
  \/ \E p \in Users : ManagerCommand(p)
  \/ SaveCoarse
  \/ ClientReady
SpecRoles == Init /\ [][NextRoles]_vars

\* Saves of two records at several clock readings under a retention of one or
\* two backups, with failing backup steps and stops of the process.
InitBackup == InitWith({"off"}, {1, 2}, {FileDefault})
NextBackup ==
  \/ ManagerAdd("u1", <<"u2">>)
  \/ DepartmentAdd("u1", "ops", <<"u2">>)
  \/ SaveStep
  \/ ClientReady
  \/ Restart
  \/ \E t \in {2, 1 + Stride, 2 + Stride} : Advance(t)
SpecBackup == InitBackup /\ [][NextBackup]_vars

\* The reminder scan over one task shared by two assignees, with the clock and
\* restarts.
InitRemind == InitWith({"off"}, {1}, {<<>>, <<S1h>>, <<S30m, S1h>>})
NextRemind ==
  \/ \E d \in DueInputs : TaskAssign("u1", d, NoDept, <<"u1", "u2">>)
  \/ SaveCoarse
  \/ Scan
  \/ ClientReady
  \/ Restart
  \/ \E t \in {1 + Stride, DueA, DueA + 1} : Advance(t)
SpecRemind == InitRemind /\ [][NextRemind]_vars

\* set-reminders with window strings made of a magnitude and a suffix, with
\* save and reload of the config.
RECURSIVE Render(_)
Render(n) ==
  IF n < 10 THEN <<Digits[n + 1]>>
  ELSE Render(n \div 10) \o <<Digits[(n % 10) + 1]>>
Magnitudes == {1, 2, 24, 30, 45}
Suffixes == {<<"d">>, <<"h">>, <<"m">>, <<"H">>, <<>>}
WindowPieces ==
  {<<Render(n) \o suf>> : n \in Magnitudes, suf \in Suffixes}
  \cup {<<<<" ">> \o S30m \o <<" ">>, S45>>}
NextWindows ==
  \/ \E p \in Users, ws \in WindowPieces : SetReminders(p, ws)
  \/ SaveCoarse
  \/ ClientReady
  \/ Restart
SpecWindows == Init /\ [][NextWindows]_vars

\* task-search over three stored tasks found in tasks.json at the start, with
\* deletions, save and reload.
StoredTask(id, owner, text) ==
  NewTaskOf(id, text.title, text.description, 0, owner, <<owner>>, NoDept,
            LogE("Created", "", "", <<>>))
TextInputs == [title : TitleInputs, description : DescriptionInputs]
SearchFiles ==
  {[keys |-> <<"u1", "u2">>,
    lists |-> [u \in Users |->
                 IF u = "u1" THEN <<StoredTask(1, u, a), StoredTask(2, u, b)>>
                 ELSE <<StoredTask(3, u, c)>>]] :
     a \in TextInputs, b \in TextInputs, c \in TextInputs}
InitSearch ==
  /\ \E file \in SearchFiles :
       /\ disk = [tasks |-> Whole(file), departments |-> Whole(<<>>),
                  managers |-> Whole({}), config |-> Whole(EmptyConfigFile)]
       /\ LET m == LoadTasks(file)
          IN keys = m.keys /\ tasks = m.tasks /\ heap = m.heap
  /\ departments = <<>> /\ managers = {}
  /\ config = LoadConfig(EmptyConfigFile)
  /\ tmp = [k \in Kinds |-> NoFile]
  /\ backups = [k \in Kinds |-> {}]
  /\ isSaving = FALSE /\ holders = <<>> /\ waiting = NoWaiting
  /\ gitMode = "off" /\ gitJobs = <<>>
  /\ now = 1 /\ ready = FALSE /\ scans = <<>>
  /\ sent = {} /\ resent = {}
  /\ last = [op |-> "none", outcome |-> "none"]
NextSearch ==
  \/ \E p \in Users, q \in QueryInputs : TaskSearch(p, q)
  \/ \E s \in StoreSelectors : TaskDelete("u1", s.id, s.index)
  \/ SaveCoarse
  \/ ClientReady
SpecSearch == InitSearch /\ [][NextSearch]_vars

\* The reminder scan with status updates arriving while a delivery is awaited.
InitDone == InitWith({"off"}, {1}, {<<S30m, S1h>>})
NextDone ==
  \/ TaskAssign("u1", [kind |-> "date", ms |-> DueA], NoDept, <<"u1", "u2">>)
  \/ TaskCreate("u2", Absent)
  \/ \E p \in Users, s \in StoreSelectors, st \in {"Done", "Pending"} :
       TaskUpdate(p, s.id, s.index, st)
  \/ SaveCoarse
  \/ Scan
  \/ ClientReady
  \/ \E t \in {1 + Stride, DueA + 1} : Advance(t)
SpecDone == InitDone /\ [][NextDone]_vars

\* Every operation that touches a stored task, over tasks created with and
\* without a department tag, with save and reload.
NextFrame ==
  \/ \E dept \in DeptInputs :
       TaskAssign("u1", [kind |-> "date", ms |-> DueA], dept, <<"u1">>)
  \/ TaskUpdate("u2", 0, 1, "Blocked")
  \/ \E id \in IdInputs \ {7} : TaskAddAssignee("u1", id, "ops", <<>>)
  \/ \E id \in IdInputs \ {7} : TaskRemoveAssignee("u1", id, <<"u2">>)
  \/ SaveCoarse
  \/ ScanStart
  \/ \E i \in 1..MaxScans : ScanSend(i, TRUE)
  \/ ClientReady
  \/ Restart
  \/ Advance(DueA + 1)
OpsFile == [d \in {"ops"} |-> <<"u2">>]
InitFrame ==
  /\ keys = <<>> /\ tasks = <<>> /\ heap = <<>>
  /\ disk = [tasks |-> Whole(EmptyTasksFile), departments |-> Whole(OpsFile),
             managers |-> Whole({}),
             config |-> Whole([hasReminders |-> TRUE, reminders |-> <<>>,
                               hasRetention |-> TRUE, backupRetention |-> 1])]
  /\ departments = readJson(disk.departments, <<>>)
  /\ managers = {}
  /\ config = LoadConfig(readJson(disk.config, EmptyConfigFile))
  /\ tmp = [k \in Kinds |-> NoFile]
  /\ backups = [k \in Kinds |-> {}]
  /\ isSaving = FALSE /\ holders = <<>> /\ waiting = NoWaiting
  /\ gitMode = "off" /\ gitJobs = <<>>
  /\ now = 1 /\ ready = FALSE /\ scans = <<>>
  /\ sent = {} /\ resent = {}
  /\ last = [op |-> "none", outcome |-> "none"]
SpecFrame == InitFrame /\ [][NextFrame]_vars

\* Reminder ticks that start while earlier ticks are suspended on a delivery.
NextOverlap ==
  \/ TaskAssign("u1", [kind |-> "date", ms |-> DueA], NoDept, <<"u1", "u2">>)
  \/ SaveCoarse
  \/ ScanStartUpTo(MaxOverlap)
  \/ \E i \in 1..MaxOverlap, ok \in BOOLEAN : ScanSend(i, ok)
  \/ ClientReady
  \/ \E t \in {1 + Stride, DueA + 1} : Advance(t)
SpecOverlap == InitDone /\ [][NextOverlap]_vars

\* Commands on all four records, the reminder scan and start-up
\* reconciliation with their saves interleaved, no step failing.
NextQuiet ==
  \/ TaskCreate("u2", [kind |-> "date", ms |-> DueA])
  \/ TaskUpdate("u2", 0, 1, "Blocked")
  \/ ManagerAdd("u1", <<"u2">>)
  \/ SetReminders("u1", <<S1h>>)
  \/ SaveCoarse
  \/ ScanStart
  \/ \E i \in 1..MaxScans : ScanSend(i, TRUE)
  \/ ClientReady
  \/ Advance(DueA + 1)
SpecQuiet == Init /\ [][NextQuiet]_vars

\* Saves of two records that succeed or throw, and handlers that wait for
\* the guard. A save function is synchronous and so runs to its end; the await
\* in safeSave settles; a waiting handler polls every 50 ms from a timer task,
\* which runs between the synchronous parts of the other handlers.
NextGuard ==
  \/ TaskCreate("u2", Absent)
  \/ ManagerAdd("u1", <<"u2">>)
  \/ SaveCoarse
  \/ SaveThrows
  \/ ClientReady
  \/ Advance(1 + Stride)
SpecGuard == Init /\ [][NextGuard]_vars
SpecGuardFair ==
  /\ SpecGuard
  /\ WF_vars(SaveSync \/ SaveThrows)
  /\ \A i \in 1..(MaxWaiting + 1) : WF_vars(SaveRelease(i))
  /\ \A k \in Kinds : SF_vars(SaveAcquire(k))

\* One task shared by two assignees under deletion and addition and removal
\* of an assignee, with save and reload.
NextIndex ==
  \/ TaskAssign("u1", Absent, NoDept, <<"u1", "u2">>)
  \/ \E p \in Users, s \in StoreSelectors : TaskDelete(p, s.id, s.index)
  \/ \E id \in IdInputs : TaskAddAssignee("u1", id, NoDept, <<"u2">>)
  \/ \E id \in IdInputs : TaskRemoveAssignee("u1", id, <<"u2">>)
  \/ SaveCoarse
  \/ ClientReady
  \/ Restart
  \/ Advance(1 + Stride)
SpecIndex == Init /\ [][NextIndex]_vars

\* What a member who is neither admin nor manager is shown by task-list,
\* task-search and export, over stores that hold other users' tasks.
NextView ==
  \/ TaskList("u2")
  \/ \E q \in QueryInputs : TaskSearch("u2", q)
  \/ Export("u2")
  \/ \E s \in StoreSelectors : TaskDelete("u1", s.id, s.index)
  \/ SaveCoarse
  \/ ClientReady
SpecView == InitSearch /\ [][NextView]_vars

\* A dated task shared by two assignees and an undated one, status updates,
\* and the clock passing the due time, in a process that keeps running. The
\* scheduler's job and the settling of a delivery are tasks of the event loop
\* that run between the synchronous parts of the handlers; a save function is
\* synchronous.
NextDue ==
  \/ TaskAssign("u1", [kind |-> "date", ms |-> DueA], NoDept, <<"u1", "u2">>)
  \/ \E st \in {"Done", "Overdue"} : TaskUpdate("u2", 0, 1, st)
  \/ SaveCoarse
  \/ Scan
  \/ ClientReady
  \/ Advance(DueA + 1)
SpecDue == InitRemind /\ [][NextDue]_vars
\* A tick started now would do something: ScanStart can take a step that
\* changes the state.
TickDue ==
  /\ Run /\ Len(scans) < MaxScans
  /\ LET res == RunScan(keys, tasks, heap, NewScan)
     IN IF res.sc.pc = "end" THEN res.sc.changed /\ CanSave ELSE TRUE
\* The scheduler keeps ticking: strong fairness of ScanStart, written out.
SpecDueFair ==
  /\ SpecDue
  /\ WF_vars(ClientReady)
  /\ (<>[]~TickDue) \/ ([]<><<ScanStart>>_vars)
  /\ \A i \in 1..MaxScans : SF_vars(\E ok \in BOOLEAN : ScanSend(i, ok))
  /\ WF_vars(SaveSync)
  /\ WF_vars(SaveRelease(1))

Next ==
  \/ TaskCommand(DueInputs, StatusInputs)
  \/ RegistryCommand
  \/ SaveStep
  \/ Scan
  \/ \E i \in 1..MaxJobs : GitStep(i)
  \/ \E i \in 1..MaxJobs : GitFails(i)
  \/ SaveThrows
  \/ ClientReady
  \/ Restart
  \/ \E t \in ClockReadings : Advance(t)
Spec == Init /\ [][Next]_vars

\* ------------------------------------------------------------ reminders
\* C1: for every task id, threshold key and assignee, at most one notification
\* of that (task, threshold) pair is delivered to that assignee, restarts and
\* tasks with several assignees included.
C1_AtMostOnePerAssignee == resent = {}

\* C6: a window reminder of a task is fired once: a scan step records a window
\* key in an entry only if no other stored entry of the same task id has that
\* key recorded already.
C6_WindowFiresOnce ==
  [][(ScanStart \/ \E i \in 1..Len(scans), ok \in BOOLEAN : ScanSend(i, ok)) =>
       \A r \in DOMAIN heap \cap DOMAIN heap' :
         \A k \in Range(heap'[r].remindersSent) \ Range(heap[r].remindersSent) :
           k # SOverdue =>
             ~\E q \in DOMAIN heap \ {r} :
                heap[q].id = heap[r].id /\ Has(heap[q].remindersSent, k)]_vars

\* C7: in every state in which a scan can start, if now is at or past the due
\* date of the first stored task, which has a due date, is not Done and has no
\* "overdue" key, then the scan records "overdue" in it and starts the delivery
\* of the overdue notification, whatever the windows are.
C7_OverdueAtOrPastDue ==
  (Run /\ Len(scans) < MaxScans /\ keys # <<>>) =>
    LET r == tasks[keys[1]][1]
        res == RunScan(keys, tasks, heap, NewScan)
    IN (/\ heap[r].due # 0 /\ heap[r].status # "Done"
        /\ now >= heap[r].due
        /\ ~Has(heap[r].remindersSent, SOverdue))
       => /\ Has(res.h[r].remindersSent, SOverdue)
          /\ res.sc.pc = "send" /\ res.sc.t = r /\ res.sc.stage = "overdue"

C2_CopiesIdentical ==
  \A u \in DOMAIN tasks, v \in DOMAIN tasks :
    \A i \in 1..Len(tasks[u]), j \in 1..Len(tasks[v]) :
      LET a == heap[tasks[u][i]]
          b == heap[tasks[v][j]]
      IN (u # v /\ a.id = b.id) =>
           /\ a.status = b.status /\ a.logs = b.logs
           /\ a.assignedTo = b.assignedTo /\ a.remindersSent = b.remindersSent

\* C3: a task created by task-create or task-assign gets an id that no task
\* already in the store carries.
C3_FreshId ==
  [][(ready /\ ready') =>
       \A r \in DOMAIN heap' \ DOMAIN heap :
         \A q \in DOMAIN heap : heap[q].id # heap'[r].id]_vars

\* C10: task-update and task-delete by a principal that is neither admin nor
\* manager on a task whose assignedTo does not contain it are rejected with
\* Forbidden and change nothing, by id and by index; an admin or manager is
\* never rejected with Forbidden.
C10_Forbidden ==
  /\ [](\A p \in Users, s \in StoreSelectors :
          LET f == Resolve(p, s.id, s.index)
          IN /\ (/\ f.kind = "found"
                 /\ ~isAdminOrManager(managers, p)
                 /\ ~Has(heap[f.task].assignedTo, p))
                => /\ DeleteOutcome(p, s.id, s.index) = "Forbidden"
                   /\ \A st \in StatusInputs :
                        UpdateOutcome(p, s.id, s.index, st) = "Forbidden"
             /\ isAdminOrManager(managers, p)
                => /\ DeleteOutcome(p, s.id, s.index) # "Forbidden"
                   /\ \A st \in StatusInputs :
                        UpdateOutcome(p, s.id, s.index, st) # "Forbidden")
  /\ [][(last' # last /\ last'.outcome = "Forbidden") =>
          UNCHANGED <<memVars, saveVars, diskVars>>]_vars
\* A principal that is not privileged has just been refused the update of a
\* stored task it is not assigned to.
C10_Witness ==
  /\ last = [op |-> "task-update", outcome |-> "Forbidden"]
  /\ \E r \in DOMAIN heap : ~Has(heap[r].assignedTo, "u2")
  /\ ~isAdminOrManager(managers, "u2")

\* C9: start-up reconciliation sets Overdue and appends one log entry on every
\* stored task that has a due date in the past and is neither Done nor
\* Overdue, leaves every other task as it is, and run again on its own result
\* changes nothing.
C9_Reconciliation ==
  [][ClientReady =>
       /\ DOMAIN heap' = DOMAIN heap
       /\ \A r \in DOMAIN heap :
            IF heap[r].due # 0 /\ heap[r].due < now
               /\ heap[r].status \notin {"Done", "Overdue"}
            THEN heap'[r] =
                   [heap[r] EXCEPT
                      !.status = "Overdue",
                      !.logs = Append(@, LogE("Auto-marked overdue on startup",
                                              "", "", <<>>))]
            ELSE heap'[r] = heap[r]
       /\ Reconcile(keys', tasks', heap', now') = heap']_vars
\* Reconciliation has just marked both stored copies of a task held in two
\* assignee collections.
C9_Witness ==
  /\ ready /\ Len(keys) = 2
  /\ \A u \in DOMAIN tasks :
       /\ Len(tasks[u]) = 1
       /\ heap[tasks[u][1]].status = "Overdue"
       /\ heap[tasks[u][1]].id = heap[tasks[keys[1]][1]].id
       /\ Len(heap[tasks[u][1]].logs) = 2
  /\ tasks[keys[1]][1] # tasks[keys[2]][1]

\* ----------------------------------------------------------- persistence
\* C4: every persisted record is complete at every step, and changes only to
\* the complete state that the save in progress is writing.
C4_AtomicWrite ==
  /\ [](\A k \in Kinds : disk[k].state = "whole")
  /\ [][\A k \in Kinds :
          disk'[k] # disk[k] =>
            /\ Busy /\ holders[Cur].kind = k
            /\ disk'[k] = Whole(Content(k))]_vars
\* The process stopped while the temporary file of the tasks record was being
\* filled, and the record holds a complete earlier state with a task in it.
C4_Witness ==
  /\ ~ready /\ holders = <<>>
  /\ tmp["tasks"] = Partial
  /\ disk["tasks"].state = "whole" /\ disk["tasks"].content.keys # <<>>

IndexInputs == (0 - 1)..(MaxRefs + 1)
BoundOf(p) ==
  IF isAdminOrManager(managers, p) THEN Len(getAllTasksUnique(keys, tasks, heap))
  ELSE Len(ListOf(tasks, p))
C11_IndexSelector ==
  \A p \in Users, x \in IndexInputs :
    LET f == Resolve(p, 0, x)
    IN IF x < 1 \/ x > BoundOf(p)
       THEN /\ f.kind = "none"
            /\ UpdateOutcome(p, 0, x, "Done") = "NotFound"
            /\ DeleteOutcome(p, 0, x) = "NotFound"
       ELSE /\ f.kind = "found"
            /\ f.task \in DOMAIN heap
            /\ UpdateOutcome(p, 0, x, "Done") # "NotFound"
            /\ DeleteOutcome(p, 0, x) # "NotFound"
            /\ IF isAdminOrManager(managers, p)
               THEN heap[f.task].id =
                      IdAt(tasks, heap, getAllTasksUnique(keys, tasks, heap)[x])
               ELSE f.userId = p /\ f.index = x /\ f.task = tasks[p][x]
\* A positional command was just answered NotFound while position 2 exists in
\* the deduplicated set but not in the member's own collection.
C11_Witness ==
  /\ last = [op |-> "task-delete", outcome |-> "NotFound"]
  /\ BoundOf("u1") = 2 /\ BoundOf("u2") = 1
  /\ Resolve("u1", 0, 2).kind = "found"
  /\ Resolve("u2", 0, 2).kind = "none"
  /\ Resolve("u2", 0, 1).kind = "found"

\* C12: task-update with a status outside Pending, In Progress, Done,
\* Blocked, Overdue is answered InvalidStatus once its target is found and
\* the principal may change it, and in every reachable state the status of
\* every stored task is one of these five values.
FiveStatuses == {"Pending", "In Progress", "Done", "Blocked", "Overdue"}
C12_StatusEnum ==
  /\ \A r \in DOMAIN heap : heap[r].status \in FiveStatuses
  /\ \A p \in Users, s \in StoreSelectors, st \in StatusInputs \ FiveStatuses :
       UpdateOutcome(p, s.id, s.index, st) \in {"NotFound", "Forbidden", "InvalidStatus"}
  /\ \A p \in Users, s \in StoreSelectors, st \in StatusInputs \ FiveStatuses :
       UpdateOutcome(p, s.id, s.index, "Done") = "ok" =>
         UpdateOutcome(p, s.id, s.index, st) = "InvalidStatus"
\* An unknown status was just refused while the store holds a task marked
\* Overdue at start-up and one set to Done by a command.
C12_Witness ==
  /\ last = [op |-> "task-update", outcome |-> "InvalidStatus"]
  /\ \E r \in DOMAIN heap : heap[r].status = "Overdue"
  /\ \E r \in DOMAIN heap : heap[r].status = "Done"

\* C13: whenever a command is answered NotFound, Forbidden, InvalidStatus or
\* EmptyAssignment, the task store, departments, managers and config in memory
\* and the four persisted records are as they were before the command, and no
\* save or backup is started or performed by it.
Refusals == {"NotFound", "Forbidden", "InvalidStatus", "EmptyAssignment"}
C13_RefusalChangesNothing ==
  [][(last' # last /\ last'.outcome \in Refusals) =>
       UNCHANGED <<keys, tasks, heap, departments, managers, config,
                   disk, tmp, backups, gitJobs, isSaving, holders, waiting>>]_vars
\* An assignment naming nobody was just refused while a task is stored in
\* memory and on disk.
C13_Witness ==
  /\ last = [op |-> "task-assign", outcome |-> "EmptyAssignment"]
  /\ heap # <<>>
  /\ disk["tasks"] = Whole(SerializeTasks(keys, tasks, heap))
  /\ \E p \in Users, s \in StoreSelectors :
       UpdateOutcome(p, s.id, s.index, "Archived") = "InvalidStatus"

\* C14: in every reachable store getAllTasksUnique returns exactly one entry
\* for each task id present in any assignee collection, no id twice and no id
\* missing, each entry being the first occurrence of its id in the order in
\* which the collections are scanned; a task held by every assignee yields one
\* entry.
C14_UniqueAll ==
  LET all == getAllTasksUnique(keys, tasks, heap)
      f == Flat(keys, tasks)
      pos(e) == CHOOSE j \in 1..Len(f) : f[j] = e
  IN /\ \A k \in 1..Len(all) : all[k] \in Range(f)
     /\ \A k, l \in 1..Len(all) :
          k # l => IdAt(tasks, heap, all[k]) # IdAt(tasks, heap, all[l])
     /\ {IdAt(tasks, heap, all[k]) : k \in 1..Len(all)} =
          {IdAt(tasks, heap, f[j]) : j \in 1..Len(f)}
     /\ \A k \in 1..Len(all) :
          all[k] \in Range(f) =>
            \A j \in 1..Len(f) :
              IdAt(tasks, heap, f[j]) = IdAt(tasks, heap, all[k]) => pos(all[k]) <= j
     /\ \A k, l \in 1..Len(all) :
          (k < l /\ all[k] \in Range(f) /\ all[l] \in Range(f)) =>
            pos(all[k]) < pos(all[l])
\* One task is held by both assignees and yields a single entry, the one of
\* the collection scanned first.
C14_Witness ==
  /\ \A u \in Users : Len(ListOf(tasks, u)) = 1
  /\ Cardinality(DOMAIN heap) = 1
  /\ Len(getAllTasksUnique(keys, tasks, heap)) = 1
  /\ getAllTasksUnique(keys, tasks, heap)[1] = [userId |-> keys[1], index |-> 1]

\* ------------------------------------------------------------ assignment
\* C15: a successful task-assign creates one task whose assignedTo is exactly
\* the union of the explicit user ids and the members of the named department
\* when that department exists, no identifier repeated even when a user is
\* named and is also a member, and the task is appended exactly once to the
\* collection of each identifier in assignedTo and to no other collection.
Wanted(dept, us) ==
  Range(us) \cup (IF dept # NoDept /\ dept \in DOMAIN departments
                  THEN Range(departments[dept]) ELSE {})
AssignedAsWanted(dept, us) ==
  LET new == DOMAIN heap' \ DOMAIN heap
      want == Wanted(dept, us)
  IN /\ Cardinality(new) = 1
     /\ \A q \in DOMAIN heap : q \in DOMAIN heap' /\ heap'[q] = heap[q]
     /\ \A r \in new :
          /\ Range(heap'[r].assignedTo) = want
          /\ Len(heap'[r].assignedTo) = Cardinality(want)
          /\ \A u \in Users :
               IF u \in want
               THEN u \in DOMAIN tasks' /\ tasks'[u] = Append(ListOf(tasks, u), r)
               ELSE /\ (u \in DOMAIN tasks') = (u \in DOMAIN tasks)
                    /\ ListOf(tasks', u) = ListOf(tasks, u)
C15_AssignUnion ==
  [][(last' = [op |-> "task-assign", outcome |-> "ok"] /\ heap' # heap) =>
       /\ \E p \in Users, dept \in DeptInputs, us \in UserLists :
            TaskAssign(p, Absent, dept, us)
       /\ \A p \in Users, dept \in DeptInputs, us \in UserLists :
            TaskAssign(p, Absent, dept, us) => AssignedAsWanted(dept, us)]_vars
\* A task was just assigned through a named user and a department with
\* another member: one object, once in each of the two collections.
C15_Witness ==
  /\ last = [op |-> "task-assign", outcome |-> "ok"]
  /\ "ops" \in DOMAIN departments /\ departments["ops"] = <<"u2">>
  /\ \E r \in DOMAIN heap :
       /\ heap[r].department = "ops"
       /\ heap[r].assignedTo = <<"u1", "u2">>
       /\ ListOf(tasks, "u1") = <<r>> /\ ListOf(tasks, "u2") = <<r>>

\* C16: for a principal allowed to assign, task-assign is answered
\* EmptyAssignment exactly when the resolved assignee set is empty (no explicit
\* users, and the department is absent, does not exist or has no members), and
\* in that case no task is added to any collection.
C16_EmptyAssignment ==
  /\ [](\A p \in Users, dept \in DeptInputs, us \in UserLists :
          /\ (AssignOutcome(p, dept, us) = "EmptyAssignment") =
               (isAdminOrManager(managers, p) /\ Wanted(dept, us) = {})
          /\ (AssignOutcome(p, dept, us) = "ok") =
               (isAdminOrManager(managers, p) /\ Wanted(dept, us) # {}))
  /\ [][(last' # last /\ last' = [op |-> "task-assign", outcome |-> "EmptyAssignment"]) =>
          UNCHANGED <<keys, tasks, heap>>]_vars
\* An assignment through a department that exists and has no members was just
\* refused while another task is stored.
C16_Witness ==
  /\ last = [op |-> "task-assign", outcome |-> "EmptyAssignment"]
  /\ "ops" \in DOMAIN departments /\ departments["ops"] = <<>>
  /\ AssignOutcome("u1", "ops", <<>>) = "EmptyAssignment"
  /\ heap # <<>>

\* C17: task-add-assignee on an existing task whose user list and department
\* resolve to nobody (no users, and the department absent or not existing) is
\* answered EmptyAssignment and leaves the task, its logs included, and the
\* persisted state and the save guard as they were.
C17_AddNobodyRefused ==
  [][(/\ last'.op = "task-add-assignee"
      /\ \E p \in Users, id \in IdInputs, dept \in DeptInputs :
           /\ isAdminOrManager(managers, p)
           /\ findTaskById(keys, tasks, heap, id).kind = "found"
           /\ Wanted(dept, <<>>) = {}
           /\ TaskAddAssignee(p, id, dept, <<>>)) =>
       /\ last'.outcome = "EmptyAssignment"
       /\ UNCHANGED <<keys, tasks, heap, disk, tmp, backups, isSaving, holders,
                      waiting>>]_vars

\* C18: after a successful task-add-assignee, assignedTo is the previous set
\* plus the requested users and the resolved department members with no
\* identifier repeated, the task is inserted exactly once into the collection
\* of each newly added identifier, and the collection of an identifier that
\* was an assignee already, or that is named twice, gains no further entry.
C18_AddOncePerNewId ==
  [][(last' = [op |-> "task-add-assignee", outcome |-> "ok"] /\ heap' # heap) =>
       \A p \in Users, id \in IdInputs, dept \in DeptInputs,
          us \in UserLists \cup {<<"u2", "u2">>} :
         TaskAddAssignee(p, id, dept, us) =>
           LET f == findTaskById(keys, tasks, heap, id)
               old == Range(heap[f.task].assignedTo)
               all == old \cup Wanted(dept, us)
           IN /\ Range(heap'[f.task].assignedTo) = all
              /\ Len(heap'[f.task].assignedTo) = Cardinality(all)
              /\ \A u \in Users :
                   ListOf(tasks', u) =
                     IF u \in all \ old THEN Append(ListOf(tasks, u), f.task)
                     ELSE ListOf(tasks, u)]_vars

\* C19: after a successful task-remove-assignee of a user from a task, a save
\* and reload having happened before or not, the removed identifier is in the
\* assignedTo of no stored copy of the task and the removed user's collection
\* holds no entry with the task's id; removing the last assignee is accepted,
\* and one log entry is appended to the task.
C19_RemovedEverywhere ==
  [][(last' = [op |-> "task-remove-assignee", outcome |-> "ok"] /\ heap' # heap) =>
       \A id \in IdInputs, u \in Users :
         TaskRemoveAssignee("u1", id, <<u>>) =>
           LET f == findTaskById(keys, tasks, heap, id)
           IN /\ \A r \in DOMAIN heap' :
                   heap'[r].id = id => ~Has(heap'[r].assignedTo, u)
              /\ \A i \in 1..Len(ListOf(tasks', u)) : heap'[tasks'[u][i]].id # id
              /\ f.task \in DOMAIN heap' =>
                   Len(heap'[f.task].logs) = Len(heap[f.task].logs) + 1]_vars

\* C20: a successful task-delete removes exactly one entry, the one at the
\* (assignee, position) coordinate its selector resolved to, from exactly one
\* collection; every other collection and every other entry, copies of the
\* same task in other assignees' collections included, is unchanged.
WithoutEntry(l, k) == [i \in 1..(Len(l) - 1) |-> IF i < k THEN l[i] ELSE l[i + 1]]
C20_DeleteOneEntry ==
  [][(last' = [op |-> "task-delete", outcome |-> "ok"] /\ tasks' # tasks) =>
       /\ \E p \in Users, s \in StoreSelectors : TaskDelete(p, s.id, s.index)
       /\ \A p \in Users, s \in StoreSelectors :
            TaskDelete(p, s.id, s.index) =>
              LET f == Resolve(p, s.id, s.index)
              IN /\ keys' = keys /\ DOMAIN tasks' = DOMAIN tasks
                 /\ tasks'[f.userId] = WithoutEntry(tasks[f.userId], f.index)
                 /\ \A u \in DOMAIN tasks \ {f.userId} : tasks'[u] = tasks[u]
                 /\ \A r \in DOMAIN heap' : r \in DOMAIN heap /\ heap'[r] = heap[r]
                 /\ \A u \in DOMAIN tasks' :
                      \A i \in 1..Len(tasks'[u]) : tasks'[u][i] \in DOMAIN heap']_vars
\* A task held by both assignees was just deleted by id: the entry found
\* first is gone, the other assignee's entry is still there.
C20_Witness ==
  /\ last = [op |-> "task-delete", outcome |-> "ok"]
  /\ ListOf(tasks, "u1") = <<>>
  /\ \E r \in Range(ListOf(tasks, "u2")) : heap[r].assignedTo = <<"u1", "u2">>

\* ------------------------------------------------------------ creation
\* C21: task-create succeeds and yields a task, the one findTaskById returns
\* for its id, with status Pending, assignedTo holding the creator alone, no
\* department, exactly one log entry ("Created") and no reminder recorded,
\* appended to the creator's collection and to no other collection.
C21_CreatedIsFound ==
  [][(last' = [op |-> "task-create", outcome |-> "ok"] /\ heap' # heap) =>
       \A p \in Users :
         TaskCreate(p, Absent) =>
           LET f == findTaskById(keys', tasks', heap', now)
           IN /\ f.kind = "found"
              /\ heap'[f.task].status = "Pending"
              /\ heap'[f.task].assignedTo = <<p>>
              /\ heap'[f.task].department = NoDept
              /\ Len(heap'[f.task].logs) = 1
              /\ heap'[f.task].logs[1].action = "Created"
              /\ heap'[f.task].remindersSent = <<>>
              /\ tasks'[p] = Append(ListOf(tasks, p), f.task)
              /\ \A u \in DOMAIN tasks' \ {p} :
                   u \in DOMAIN tasks /\ tasks'[u] = tasks[u]]_vars

\* ------------------------------------------------------------ listing
\* C22: task-list gives a privileged principal the full deduplicated task set,
\* one entry per id over all assignee collections, and gives any other
\* principal exactly the entries of its own collection in stored order and no
\* entry of another collection.
C22_ListForPrincipal ==
  \A p \in Users :
    LET l == taskList(p)
        f == Flat(keys, tasks)
    IN IF isAdminOrManager(managers, p)
       THEN /\ \A k \in 1..Len(l) : l[k] \in Range(f)
            /\ \A k, m \in 1..Len(l) :
                 (k # m /\ l[k] \in Range(f) /\ l[m] \in Range(f)) =>
                   IdAt(tasks, heap, l[k]) # IdAt(tasks, heap, l[m])
            /\ {IdAt(tasks, heap, e) : e \in Range(l) \cap Range(f)} =
                 {IdAt(tasks, heap, f[j]) : j \in 1..Len(f)}
       ELSE /\ Len(l) = Len(ListOf(tasks, p))
            /\ \A k \in 1..Len(l) : l[k] = [userId |-> p, index |-> k]
\* A listing was just answered while the owner and the member hold one entry
\* each, with different ids.
C22_Witness ==
  /\ last = [op |-> "task-list", outcome |-> "ok"]
  /\ ~isAdminOrManager(managers, "u2")
  /\ Len(taskList("u2")) = 1
  /\ Len(taskList("u1")) = 2
  /\ Len(ListOf(tasks, "u1")) = 1

\* ------------------------------------------------------------ backups
\* C23: after a save whose backup step ran to its end, the number of backups
\* kept for the saved record is at most the configured retention N; when N or
\* more backups of that record existed, exactly N remain, every remaining
\* backup is newer than every deleted one, and no backup of another record is
\* deleted.
C23_Retention ==
  [][SaveBackupPrune =>
       LET k == holders[Cur].kind
           N == config.backupRetention
       IN /\ Cardinality(backups'[k]) <= N
          /\ backups'[k] \subseteq backups[k]
          /\ Cardinality(backups[k]) >= N => Cardinality(backups'[k]) = N
          /\ Cardinality(backups[k]) < N => backups'[k] = backups[k]
          /\ \A kept \in backups'[k], gone \in backups[k] \ backups'[k] : kept > gone
          /\ \A j \in Kinds \ {k} : backups'[j] = backups[j]]_vars
\* A save has just pruned the backups of one record down to a retention of
\* two, the backup of the first clock reading gone, while the other record
\* still has its backup of that reading.
C23_Witness ==
  /\ At("push")
  /\ config.backupRetention = 2
  /\ Cardinality(backups[holders[Cur].kind]) = 2
  /\ 1 \notin backups[holders[Cur].kind]
  /\ \E j \in Kinds \ {holders[Cur].kind} : 1 \in backups[j]

\* C24: when the backup copy or prune step or the remote replication fails
\* during a save, the failure is swallowed: the primary record keeps the newly
\* written state, the process goes on with its memory and the save guard's
\* course untouched, and the answer of the command that asked for the save
\* stands.
C24_FailuresSwallowed ==
  [][(SaveBackupFails \/ \E i \in 1..Len(gitJobs) : GitFails(i)) =>
       /\ disk' = disk
       /\ UNCHANGED <<keys, tasks, heap, departments, managers, config>>
       /\ ready' = ready /\ last' = last
       /\ isSaving' = isSaving /\ waiting' = waiting
       /\ Len(holders') = Len(holders)]_vars

\* ------------------------------------------------------------ roles
\* C25: department-add, department-add-member, department-remove-member,
\* manager-add and set-reminders issued by a principal who is not an admin, a
\* manager included, are refused and leave departments, managers and config
\* unchanged; task-assign, task-add-assignee and task-remove-assignee issued
\* by a principal who is neither admin nor manager are refused and leave the
\* task store unchanged; no command of a principal who is not an admin
\* changes the managers.
NotAdmin(p) == p \notin ADMIN_IDS /\ p # OwnerId
C25_RolesEnforced ==
  [][\A p \in Users :
       NotAdmin(p) =>
         /\ AdminCommand(p) =>
              /\ last'.outcome = "Forbidden"
              /\ UNCHANGED <<departments, managers, config>>
         /\ (p \notin managers /\ ManagerCommand(p)) =>
              /\ last'.outcome = "Forbidden"
              /\ UNCHANGED <<keys, tasks, heap>>
         /\ (AdminCommand(p) \/ ManagerCommand(p)) => managers' = managers]_vars
\* A registered manager was just refused manager-add while holding a task
\* assigned by the owner.
C25_Witness ==
  /\ last = [op |-> "manager-add", outcome |-> "Forbidden"]
  /\ "u2" \in managers
  /\ ListOf(tasks, "u2") # <<>>
  /\ "ops" \in DOMAIN departments

\* ------------------------------------------------------------ exclusions
\* C26: a reminder scan starts no delivery for, and changes neither
\* remindersSent nor logs of, a stored task that has no due date or whose
\* status is Done, however far past due it is.
C26_DoneAndUndatedSkipped ==
  [][(ScanStart \/ \E i \in 1..Len(scans), ok \in BOOLEAN : ScanSend(i, ok)) =>
       \A r \in DOMAIN heap \cap DOMAIN heap' :
         (heap[r].due = 0 \/ heap[r].status = "Done") =>
           /\ heap'[r].remindersSent = heap[r].remindersSent
           /\ heap'[r].logs = heap[r].logs
           /\ \A j \in 1..Len(scans') :
                (scans'[j].t = r /\ scans'[j].pc = "send") =>
                  (j <= Len(scans) /\ scans'[j] = scans[j])]_vars

\* C28: the recurring reminder scan never changes the status of a task: its
\* steps change only remindersSent and logs of stored tasks, and a task that
\* passes its due time while the process runs keeps its status until the
\* start-up reconciliation or a task-update.
C28_ScanKeepsStatus ==
  /\ [][(ScanStart \/ \E i \in 1..Len(scans), ok \in BOOLEAN : ScanSend(i, ok)) =>
          /\ keys' = keys /\ tasks' = tasks
          /\ \A r \in DOMAIN heap \cap DOMAIN heap' :
               heap'[r] = [heap[r] EXCEPT !.remindersSent = heap'[r].remindersSent,
                                          !.logs = heap'[r].logs]]_vars
  /\ [][(\E r \in DOMAIN heap \cap DOMAIN heap' : heap'[r].status # heap[r].status) =>
          (last' = [op |-> "task-update", outcome |-> "ok"] \/ (~ready /\ ready'))]_vars
\* A task past its due time has had its overdue notice recorded by a scan and
\* is still Pending.
C28_Witness ==
  /\ ready
  /\ \E r \in DOMAIN heap :
       /\ heap[r].due # 0 /\ heap[r].due < now
       /\ heap[r].status = "Pending"
       /\ Has(heap[r].remindersSent, SOverdue)
       /\ \E i \in 1..Len(heap[r].logs) : heap[r].logs[i].action = "Reminder sent"

\* ------------------------------------------------------------ windows
\* The minutes of every configured window string made of a magnitude and a
\* suffix: the magnitude times 1440 for d, 60 for h, 1 for m, and times
\* `plain` without a suffix.
WindowsScaled(plain) ==
  \A i \in 1..Len(config.reminders), n \in Magnitudes, suf \in Suffixes :
    config.reminders[i] = Render(n) \o suf =>
      parseWindowToMinutes(config.reminders[i]) =
        [nan |-> FALSE,
         v |-> n * (CASE suf = <<"d">> -> 1440
                      [] suf \in {<<"h">>, <<"H">>} -> 60
                      [] suf = <<"m">> -> 1
                      [] OTHER -> plain)]
\* C29 as stated: parsing a reminder window string yields the magnitude times
\* 1440 for a trailing d, times 60 for a trailing h, times 1 for a trailing m,
\* and times 1, the magnitude taken as minutes, without a suffix.
C29_PlainIsMinutes == WindowsScaled(1)
\* C29 as amended: parsing a reminder window string yields the magnitude times
\* 1440 for a trailing d, times 60 for a trailing h, times 1 for a trailing m,
\* and times 60, the magnitude taken as hours, without a suffix.
C29_PlainIsHours == WindowsScaled(60)
\* set-reminders has just stored a window without a suffix and the config
\* holds it.
C29_Witness ==
  /\ last = [op |-> "set-reminders", outcome |-> "ok"]
  /\ config.reminders = <<S45>>
  /\ WindowsOf(config.reminders) = <<[key |-> S45, mins |-> 2700]>>

\* ------------------------------------------------------------ search
TitleAt(e) == ToLowerCase(heap[RefAt(tasks, e)].title)
DescriptionAt(e) == ToLowerCase(heap[RefAt(tasks, e)].description)
Within(s, q) ==
  \E i \in 0..Len(s) :
    i + Len(q) <= Len(s) /\ \A j \in 1..Len(q) : s[i + j] = q[j]
GivenScore(e, query) ==
  ScoreOf(heap[RefAt(tasks, e)].title, heap[RefAt(tasks, e)].description,
          ToLowerCase(query))
PlaceIn(xs, e) == CHOOSE k \in 1..Len(xs) : xs[k] = e
Before(a, b, all, query) ==
  \/ GivenScore(a, query) > GivenScore(b, query)
  \/ GivenScore(a, query) = GivenScore(b, query) /\ PlaceIn(all, a) < PlaceIn(all, b)

\* C27: for every query, a task whose title equals the query is ranked above
\* one whose title contains it as a proper substring, which is ranked above
\* one of which only the description contains it; the result of
\* fuzzySearchTasks holds only tasks with a score above 0, in order of
\* non-increasing score with ties in scan order, and has at most limit
\* entries, the best ones.
C27_Ranking ==
  \A query \in QueryInputs, limit \in {1, 2, SearchLimit} :
    LET r == fuzzySearchTasks(query, limit)
        all == getAllTasksUnique(keys, tasks, heap)
        q == ToLowerCase(query)
        scoring == {e \in Range(all) : GivenScore(e, query) > 0}
    IN /\ Range(r) \subseteq scoring
       /\ Len(r) = Cardinality(Range(r))
       /\ Len(r) = IF Cardinality(scoring) < limit THEN Cardinality(scoring) ELSE limit
       /\ \A k, l \in 1..Len(r) :
            (k < l /\ Range(r) \subseteq Range(all)) => Before(r[k], r[l], all, query)
       /\ \A e \in scoring \ Range(r) :
            \A k \in 1..Len(r) : r[k] \in Range(all) => Before(r[k], e, all, query)
       /\ \A a, b, c \in Range(all) :
            (/\ TitleAt(a) = q
             /\ Within(TitleAt(b), q) /\ TitleAt(b) # q
             /\ ~Within(TitleAt(c), q) /\ Within(DescriptionAt(c), q)) =>
              /\ GivenScore(a, query) > GivenScore(b, query)
              /\ GivenScore(b, query) > GivenScore(c, query)
              /\ {a, b, c} \subseteq Range(r) =>
                   (PlaceIn(r, a) < PlaceIn(r, b) /\ PlaceIn(r, b) < PlaceIn(r, c))
\* A search was just answered over three tasks stored in the order
\* description-only match, proper substring, exact title, and returns them
\* reversed.
C27_Witness ==
  /\ last = [op |-> "task-search", outcome |-> "ok"]
  /\ Len(getAllTasksUnique(keys, tasks, heap)) = 3
  /\ TitleAt([userId |-> "u1", index |-> 1]) = <<"o", "f">>
  /\ fuzzySearchTasks(SFoo, SearchLimit) =
       <<[userId |-> "u2", index |-> 1], [userId |-> "u1", index |-> 2],
         [userId |-> "u1", index |-> 1]>>

\* The score by the stated rule: 100 for a title equal to the query, 50 for a
\* title containing it, 20 for a description containing it, and the characters
\* of the query found in the title, counted once each or at every occurrence
\* in the query.
StatedScore(e, query, once) ==
  LET q == ToLowerCase(query)
      t == TitleAt(e)
  IN (IF t = q THEN 100 ELSE 0)
     + (IF Within(t, q) THEN 50 ELSE 0)
     + (IF Within(DescriptionAt(e), q) THEN 20 ELSE 0)
     + (IF once THEN Cardinality(Range(q) \cap Range(t))
        ELSE Cardinality({i \in 1..Len(q) : q[i] \in Range(t)}))
\* C30 as stated: the score fuzzySearchTasks gives a task is 100 if the
\* lower-cased title equals the lower-cased query, plus 50 if the title
\* contains the query, plus 20 if the description contains it, plus 1 for each
\* distinct character of the query that occurs in the title.
C30_DistinctCharacters ==
  \A e \in Range(getAllTasksUnique(keys, tasks, heap)), query \in QueryInputs :
    GivenScore(e, query) = StatedScore(e, query, TRUE)
\* C30 as amended: the same, plus 1 for each character of the query that
\* occurs in the title, a character repeated in the query counting each time.
C30_EveryCharacter ==
  \A e \in Range(getAllTasksUnique(keys, tasks, heap)), query \in QueryInputs :
    GivenScore(e, query) = StatedScore(e, query, FALSE)
\* A search was just answered while a stored task has the query "foo" as its
\* title: 100 + 50 + 3.
C30_Witness ==
  /\ last = [op |-> "task-search", outcome |-> "ok"]
  /\ \E e \in Range(getAllTasksUnique(keys, tasks, heap)) :
       TitleAt(e) = SFoo /\ GivenScore(e, SFoo) = 153

\* ------------------------------------------------------------ frame
Identity(t) == <<t.id, t.createdBy, t.department>>
\* C31: id, createdBy and department of a stored task never change: every
\* step of a running process leaves them as they are on each task object
\* (status updates, additions of assignees with a department argument,
\* removals, reminder scans, start-up reconciliation), a save writes them as
\* they are in memory, and a start of the process loads them as they are in
\* the file.
C31_IdentityKept ==
  [][/\ ready' =>
          \A r \in DOMAIN heap \cap DOMAIN heap' :
            Identity(heap'[r]) = Identity(heap[r])
     /\ disk'.tasks # disk.tasks =>
          /\ disk'.tasks.state = "whole"
          /\ disk'.tasks.content.keys = keys
          /\ \A u \in DOMAIN tasks :
               /\ Len(disk'.tasks.content.lists[u]) = Len(tasks[u])
               /\ \A i \in 1..Len(tasks[u]) :
                    Identity(disk'.tasks.content.lists[u][i]) =
                      Identity(heap[tasks[u][i]])
     /\ ~ready' =>
          LET file == readJson(disk.tasks, EmptyTasksFile)
          IN /\ keys' = file.keys
             /\ DOMAIN tasks' = DOMAIN file.lists
             /\ \A u \in DOMAIN tasks' :
                  /\ Len(tasks'[u]) = Len(file.lists[u])
                  /\ \A i \in 1..Len(tasks'[u]) :
                       Identity(heap'[tasks'[u][i]]) = Identity(file.lists[u][i])
    ]_vars
\* A task assigned without a department has had the members of "ops" added
\* to it, was saved and loaded again, and still has no department tag.
C31_Witness ==
  /\ ready /\ last.op = "none"
  /\ \E r \in DOMAIN heap :
       /\ heap[r].department = NoDept
       /\ heap[r].createdBy = "u1"
       /\ heap[r].assignedTo = <<"u1", "u2">>
       /\ Len(heap[r].logs) = 2

\* ------------------------------------------------------------ target
\* The entries of the store in assignee-scan order: the collections in the
\* order their keys were inserted, each from its first entry to its last.
RECURSIVE Walk(_)
Walk(k) ==
  IF k > Len(keys) THEN <<>>
  ELSE [i \in 1..Len(tasks[keys[k]]) |-> [userId |-> keys[k], index |-> i]]
       \o Walk(k + 1)
ScanOrder == Walk(1)
\* C32: task-update and task-delete given an id that a stored task has aim at
\* the first entry with that id in assignee-scan order, whatever index comes
\* with it; given only an index in range, an admin or manager gets a target
\* with the id of that entry of the deduplicated list task-list shows them,
\* anybody else that entry of their own collection.
C32_Target ==
  /\ \A p \in Users, id \in IdInputs \ {0}, x \in IndexInputs :
       LET hits == {j \in 1..Len(ScanOrder) : heap[RefAt(tasks, ScanOrder[j])].id = id}
           f == Resolve(p, id, x)
       IN hits # {} =>
            \E j \in hits :
              /\ \A k \in hits : j <= k
              /\ f = [kind |-> "found", userId |-> ScanOrder[j].userId,
                      index |-> ScanOrder[j].index,
                      task |-> RefAt(tasks, ScanOrder[j])]
  /\ \A p \in Users : \A i \in 1..Len(taskList(p)) :
       LET f == Resolve(p, 0, i)
       IN /\ f.kind = "found"
          /\ IF isAdminOrManager(managers, p)
             THEN heap[f.task].id = heap[RefAt(tasks, taskList(p)[i])].id
             ELSE f = [kind |-> "found", userId |-> p, index |-> i,
                       task |-> tasks[p][i]]
\* A task-update by id was just carried out while two entries of different
\* collections have that id, and the one in the first collection is Done.
C32_Witness ==
  /\ last = [op |-> "task-update", outcome |-> "ok"]
  /\ Len(keys) = 2
  /\ Len(tasks[keys[1]]) = 1 /\ Len(tasks[keys[2]]) = 1
  /\ tasks[keys[1]][1] # tasks[keys[2]][1]
  /\ heap[tasks[keys[1]][1]].id = heap[tasks[keys[2]][1]].id
  /\ heap[tasks[keys[1]][1]].status = "Done"
  /\ heap[tasks[keys[2]][1]].status = "Pending"

\* ------------------------------------------------------------ overlap
\* C33: ticks that overlap send the notification of a (stored task, threshold
\* key) at most once: no key is recorded twice in remindersSent, no two
\* suspended ticks are delivering the same key of the same task, and nothing
\* is delivered a second time to an assignee.
C33_OverlapFiresOnce ==
  /\ \A r \in DOMAIN heap :
       \A i, j \in 1..Len(heap[r].remindersSent) :
         heap[r].remindersSent[i] = heap[r].remindersSent[j] => i = j
  /\ \A i, j \in 1..Len(scans) :
       (scans[i].t = scans[j].t /\ KeyOf(scans[i]) = KeyOf(scans[j])) => i = j
  /\ \A i \in 1..Len(scans) : AlreadySent(heap[scans[i].t], KeyOf(scans[i]))
  /\ resent = {}
\* Two ticks are suspended at once, on deliveries for different keys of the
\* same task.
C33_Witness ==
  /\ Len(scans) = 2
  /\ scans[1].t = scans[2].t
  /\ scans[1].pc = "send" /\ scans[2].pc = "send"
  /\ KeyOf(scans[1]) # KeyOf(scans[2])

\* ------------------------------------------------------------ quiescence
\* No command, reminder tick or reconciliation is in flight and the guard is
\* free.
Quiet == ~isSaving /\ holders = <<>> /\ Waiting = 0 /\ scans = <<>>
\* C34 as stated: in every quiet state each of the four persisted records
\* equals the serialization of what is in memory.
C34_DiskIsMemory ==
  Quiet => \A k \in Kinds : disk[k] = Whole(Content(k))
\* C34 as amended: in every quiet state the persisted tasks, departments and
\* managers records equal the serialization of what is in memory, and the
\* persisted config record, with the defaults filled in for the fields it
\* lacks, equals the config in memory.
C34_DiskIsMemoryUpToDefaults ==
  Quiet =>
    /\ \A k \in Kinds \ {"config"} : disk[k] = Whole(Content(k))
    /\ disk.config.state = "whole"
    /\ LoadConfig(disk.config.content) = config
\* A quiet state reached after a status update and a change of the managers
\* went through their saves, one of them having waited for the guard.
C34_Witness ==
  /\ Quiet /\ ready
  /\ managers = {"u2"}
  /\ \E r \in DOMAIN heap : heap[r].status = "Blocked"
  /\ Cardinality(backups.tasks) + Cardinality(backups.managers) >= 2
  /\ disk.tasks = Whole(SerializeTasks(keys, tasks, heap))

\* ------------------------------------------------------------ guard
\* C35: a guard that is taken is eventually released, also when the save
\* throws; handlers waiting for the guard eventually take it (the waiting
\* handlers of one kind are counted, not told apart: as long as some keep
\* waiting, waiting handlers of that kind keep taking the guard), and every
\* operation inside safeSave eventually leaves it.
C35_GuardReleased ==
  /\ isSaving ~> ~isSaving
  /\ \A k \in Kinds :
       ([]<>(waiting[k] = 0)) \/ ([]<><<SaveAcquire(k)>>_vars)
  /\ (holders # <<>>) ~> (holders = <<>>)
\* A handler waits for the guard to save the managers while a save of the
\* tasks holds it.
C35_Witness ==
  /\ isSaving /\ waiting.managers = 1
  /\ holders # <<>> /\ holders[1].kind = "tasks"

\* ------------------------------------------------------------ index
\* C36: in every reachable state, for every stored task T and user U, an entry
\* with the id of T is in the collection of U exactly if U is in the
\* assignedTo of T.
C36_IndexAgrees ==
  \A r \in DOMAIN heap : \A u \in Users :
    (\E i \in 1..Len(ListOf(tasks, u)) : heap[tasks[u][i]].id = heap[r].id)
      <=> Has(heap[r].assignedTo, u)

\* ------------------------------------------------------------ own entry
\* C37: for a principal who is neither admin nor manager, every task-update
\* and task-delete that succeeds, by id or by index, acts on the entry of the
\* principal's own collection: the object the update changes is the one their
\* own list holds, and the entry the delete removes is in their own
\* collection.
C37_ActsOnOwnEntry ==
  \A p \in Users : ~isAdminOrManager(managers, p) =>
    \A s \in StoreSelectors :
      LET f == Resolve(p, s.id, s.index)
      IN /\ UpdateOutcome(p, s.id, s.index, "Done") = "ok" =>
              Has(ListOf(tasks, p), f.task)
         /\ DeleteOutcome(p, s.id, s.index) = "ok" => f.userId = p

\* ------------------------------------------------------------ views
\* The store with every collection but the principal's own left out.
OwnKeys(p) == IF p \in DOMAIN tasks THEN <<p>> ELSE <<>>
OwnTasks(p) == [u \in DOMAIN tasks \cap {p} |-> tasks[u]]
Shown(entries, ts) == [k \in 1..Len(entries) |-> heap[RefAt(ts, entries[k])]]
OwnShown(p) == [i \in 1..Len(ListOf(tasks, p)) |-> heap[tasks[p][i]]]
\* C38: what task-list, task-search and export show a principal who is
\* neither admin nor manager is what they would show if the store held that
\* principal's collection only.
C38_OwnTasksOnly ==
  \A p \in Users : ~isAdminOrManager(managers, p) =>
    /\ Shown(taskList(p), tasks) = OwnShown(p)
    /\ Shown(exportTasks(p), tasks) = OwnShown(p)
    /\ \A q \in QueryInputs :
         Shown(fuzzySearchTasks(q, SearchLimit), tasks) =
           Shown(fuzzySearchIn(OwnKeys(p), OwnTasks(p), heap, q, SearchLimit),
                 OwnTasks(p))

\* ------------------------------------------------------------ escalation
Stored(r) == r \in DOMAIN heap /\ \E u \in DOMAIN tasks : Has(tasks[u], r)
Pending(r) == heap[r].due # 0 /\ heap[r].status # "Done"
OverdueDone(r) ==
  /\ AlreadySent(heap[r], SOverdue)
  /\ \E i \in 1..Len(heap[r].logs) :
       heap[r].logs[i].action = "Reminder sent" /\ heap[r].logs[i].key = SOverdue
\* C39: with the scheduler ticking and the clock advancing, a stored task
\* with a due date that is not Done, once its due time has passed, eventually
\* has "overdue" in remindersSent and the deliveries of its overdue notice
\* attempted, unless it stops being stored or becomes Done.
C39_OverdueEventually ==
  \A r \in Refs :
    [](Stored(r) /\ Pending(r) /\ heap[r].due < now
         => <>(~Stored(r) \/ ~Pending(r) \/ OverdueDone(r)))
\* The overdue notice of a task a member had marked Overdue by hand has gone
\* out.
C39_Witness ==
  \E r \in Refs :
    /\ Stored(r) /\ OverdueDone(r)
    /\ heap[r].status = "Overdue"
    /\ sent # {}

====
